---- MODULE Spec2Model ----
(***************************************************************************)
(* A model of the terraforming zone of src/terraforming.ts (the variant    *)
(* with spawners, lines 1-593): its start/stop state machine, the periodic *)
(* step, spawner placement and spreading, and the shared voxel grid that a *)
(* player mutates concurrently.                                            *)
(*                                                                         *)
(* Time is counted in whole step intervals (intervalMs), so that           *)
(* stepsElapsed = floor((Date.now() - startTime) / intervalMs) is the      *)
(* difference of two clock readings.  A handler runs to completion (the    *)
(* host is single threaded), so each handler is one action.                *)
(***************************************************************************)
EXTENDS Integers, Sequences, FiniteSets, TLC

(***************************************************************************)
(* Zone configuration (constructor options), scaled to a small footprint.  *)
(***************************************************************************)
centerX == 0
centerZ == 0
size == 6
targetHeight == 3
terraformSize == 4
blockTypeId == 2
elevationSpeed == 1
spawnerBlockId == 19
spawnerSpreadRadius == 5
minDistance == 5
AIR == 0
\* Math.abs(x) <= 2 && Math.abs(z) <= 2: the columns of the bunker
bunkerHalf == 2
GROUND == 2
\* what a read of a cell yields when chunkLattice.getBlockId throws
Throws == -1

(***************************************************************************)
(* Bounds of the exploration.                                              *)
(***************************************************************************)
MaxTime == 4
MaxTargets == 4
MaxExternal == 1
MaxTimers == 3

MaxSize == 4
MaxPlainTime == 7
MaxElevation == 5
MaxRadius == 5
MaxTerraformSize == 4
MaxSiteTime == 6
MaxDig == 2
MaxFaults == 1
MaxPairTime == 2
MaxPlayers == 2
MaxHits == 3
MaxSwings == 4
MaxHitTime == 1

\* The footprints whose bounds check is surveyed.
SurveySizes == 1..MaxSize
SurveyCenters == { << 0, 0 >>, << 1, -2 >>, << -3, 2 >> }

\* The lists of initial spawn points a zone may be configured with.
InitialPointLists ==
    { << <<-3, -3>>, <<2, -3>> >>,
      << <<4, 0>>, <<2, -3>> >>,
      << <<0, 0>> >> }

VARIABLES
    isActive,            \* Terraforming.isActive
    intervalId,          \* handle of the zone's periodic driver, 0 = null
    timers,              \* handles of the periodic drivers the host is running
    currentTarget,       \* id of the current target object, 0 = null
    targets,             \* the target objects ever created, by id
    completedTargets,    \* sequence of target ids (references)
    spawnerPositions,    \* insertion-ordered set of marker keys
    hasInitialSpawners,
    initialSpawnPoints,  \* configured list of <<x, z>>
    grid,                \* blocks that differ from the loaded map
    now,                 \* clock, in step intervals
    external,            \* number of interventions from outside the driver
    lastOp,              \* the handler that ran last
    trace,               \* what the last handler did, in order
    survey,              \* a survey of a check or a formula over its inputs
    peer,                \* a second zone on the same grid
    terrain              \* TerrainManager.instance and the hits on their way

zoneVars == << isActive, intervalId, timers, currentTarget, targets,
               completedTargets, spawnerPositions, hasInitialSpawners,
               initialSpawnPoints, grid, now, external, lastOp, trace >>

vars == << zoneVars, survey, peer, terrain >>

Range(s) == { s[i] : i \in 1..Len(s) }
Max(a, b) == IF a >= b THEN a ELSE b
Min(a, b) == IF a <= b THEN a ELSE b
Abs(a) == IF a < 0 THEN -a ELSE a

(***************************************************************************)
(* Positions, keys and targets.                                            *)
(***************************************************************************)
Pos(x, y, z) == [x |-> x, y |-> y, z |-> z]
\* target.spawnerPosition === undefined
Undefined == Pos(0, -1, 0)
\* `${x},${y},${z}`
PosKey(p) == << p.x, p.y, p.z >>
\* posKey.split(',') and parseInt of the three parts
ParseKey(k) == Pos(k[1], k[2], k[3])

NewTarget(x, z, t, sp) ==
    [x |-> x, y |-> targetHeight, z |-> z, startTime |-> t,
     spawnerPosition |-> sp, isActive |-> TRUE]

(***************************************************************************)
(* The grid: the loaded map is a plane of clay at y = 0; `grid` holds the  *)
(* cells that were written since.                                          *)
(***************************************************************************)
BaseBlock(p) == IF p.y = 0 THEN GROUND ELSE AIR

GetBlockId(g, p) == IF p \in DOMAIN g THEN g[p] ELSE BaseBlock(p)

SetBlock(g, p, id) ==
    IF id = BaseBlock(p)
    THEN [q \in (DOMAIN g) \ {p} |-> g[q]]
    ELSE [q \in (DOMAIN g) \cup {p} |-> IF q = p THEN id ELSE g[q]]

\* The grid as the reads of one handler find it: the reads of `cells` throw.
FaultyGrid(g, cells) ==
    IF cells = {} THEN g
    ELSE [q \in (DOMAIN g) \cup cells |-> IF q \in cells THEN Throws ELSE g[q]]

\* Faulty variant of HasBlockAt: a read that throws counts as a block.
HasBlockAtUncaught(g, x, y, z) == GetBlockId(g, Pos(x, y, z)) # AIR

\* try { return blockId !== 0 ... } catch { return false }
HasBlockAt(g, x, y, z) ==
    LET blockId == GetBlockId(g, Pos(x, y, z))
    IN  IF blockId = Throws THEN FALSE ELSE blockId # AIR

\* for (let y = from; y >= 0; y--) if (this.hasBlockAt(x, y, z)) return y
RECURSIVE ProbeDown(_, _, _, _)
ProbeDown(g, x, y, z) ==
    IF y < 0 THEN -1
    ELSE IF HasBlockAt(g, x, y, z) THEN y
    ELSE ProbeDown(g, x, y - 1, z)

GetCurrentHeight(g, x, z) == ProbeDown(g, x, targetHeight + 10, z)

IsWithinBounds(x, z) ==
    LET halfSize == size \div 2
        minX == centerX - halfSize
        maxX == centerX + halfSize - 1
        minZ == centerZ - halfSize
        maxZ == centerZ + halfSize - 1
    IN  x >= minX /\ x <= maxX /\ z >= minZ /\ z <= maxZ

\* try { return blockId === this.spawnerBlockId } catch { return false }
IsSpawnerBlockPresent(g, p) ==
    LET blockId == GetBlockId(g, p)
    IN  IF blockId = Throws THEN FALSE ELSE blockId = spawnerBlockId

(***************************************************************************)
(* The zone's in-memory state as one record, so that the private methods   *)
(* can be composed: cur (currentTarget), targets, hist (completedTargets), *)
(* reg (spawnerPositions), init (hasInitialSpawners), grid, trace.         *)
(* A method whose outcome depends on Math.random() yields the set of the   *)
(* states it can return in.  The record also says which grid calls fail    *)
(* while the handler runs: fail.r are the cells whose read throws, fail.w  *)
(* the cells whose write throws.                                           *)
(***************************************************************************)
Event(ev, p, live) == [ev |-> ev, pos |-> p, live |-> live]

Log(s, ev, p, live) == [s EXCEPT !.trace = Append(@, Event(ev, p, live))]

NoFaults == [r |-> {}, w |-> {}]

\* What getBlockId yields to the handler.
Reads(s) == FaultyGrid(s.grid, s.fail.r)

\* Faulty variant of Writes: a write that throws ends the loop, and no cell
\* of the step is written.
WritesAbort(s, cells) == IF cells \cap s.fail.w = {} THEN cells ELSE {}

\* The cells among `cells` that setBlock does write.
Writes(s, cells) == cells \ s.fail.w

\* setBlock: try { chunkLattice.setBlock } catch { console.error }
Write(s, p, id) ==
    LET s1 == IF Writes(s, {p}) = {} THEN s
              ELSE [s EXCEPT !.grid = SetBlock(@, p, id)]
    IN  IF p \in s.fail.w THEN Log(s1, "failed", p, {p}) ELSE s1

\* Set.prototype.add keeps the insertion order and ignores a present key
RegAdd(reg, k) == IF k \in Range(reg) THEN reg ELSE Append(reg, k)

\* Faulty variant of RegDelete: the key is never dropped.
RegDeleteKeeps(reg, k) == reg

\* Faulty variant of RegDelete: the whole registry is dropped.
RegDeleteAll(reg, k) == << >>

\* Set.prototype.delete
RegDelete(reg, k) == SelectSeq(reg, LAMBDA e : e # k)

GetSpawnerPositions(reg) == [i \in 1..Len(reg) |-> ParseKey(reg[i])]

\* Faulty variant of GetActiveSpawnerPositions: every registered marker
\* counts as live.
GetRegisteredSpawnerPositions(g, reg) == GetSpawnerPositions(reg)

GetActiveSpawnerPositions(g, reg) ==
    SelectSeq(GetSpawnerPositions(reg), LAMBDA p : IsSpawnerBlockPresent(g, p))

DistSq(x1, z1, x2, z2) == (x1 - x2) * (x1 - x2) + (z1 - z2) * (z1 - z2)

\* Faulty variant of IsValidSpawnerPosition: the minimum spacing is not checked.
IsValidWithoutSpacing(g, reg, x, z) ==
    /\ IsWithinBounds(x, z)
    /\ \E sp \in Range(GetActiveSpawnerPositions(g, reg)) :
          DistSq(x, z, sp.x, sp.z) <= spawnerSpreadRadius * spawnerSpreadRadius

\* Math.sqrt is correctly rounded, so comparing it with an integer is the
\* comparison of the squares.
IsValidSpawnerPosition(g, reg, x, z) ==
    LET activeSpawners == Range(GetActiveSpawnerPositions(g, reg))
    IN  /\ IsWithinBounds(x, z)
        /\ \A sp \in activeSpawners :
              ~ (DistSq(x, z, sp.x, sp.z) < minDistance * minDistance)
        /\ \E sp \in activeSpawners :
              DistSq(x, z, sp.x, sp.z) <= spawnerSpreadRadius * spawnerSpreadRadius

\* The columns Math.round can produce from a point at distance
\* Math.random() * spawnerSpreadRadius of the source: those whose unit cell
\* meets the open disc around the source.
Sampled(src, x, z) ==
    LET a == Max(2 * Abs(x - src.x) - 1, 0)
        b == Max(2 * Abs(z - src.z) - 1, 0)
    IN  a * a + b * b < 4 * spawnerSpreadRadius * spawnerSpreadRadius

Columns ==
    { c \in ((centerX - size)..(centerX + size)) \X ((centerZ - size)..(centerZ + size)) :
        IsWithinBounds(c[1], c[2]) }

NoSite == << >>

\* Faulty variant of FindValidSpawnerPosition: the sampling never hits a
\* valid site.
FindNoSpawnerPosition(g, reg) == {NoSite}

\* The results of the 50 attempts: any sampled column that passes the
\* validity check, or null when every attempt was rejected.
FindValidSpawnerPosition(g, reg) ==
    LET activeSpawners == Range(GetActiveSpawnerPositions(g, reg))
    IN  IF activeSpawners = {} THEN {NoSite}
        ELSE {NoSite} \cup
             { c \in Columns :
                 /\ \E src \in activeSpawners : Sampled(src, c[1], c[2])
                 /\ IsValidSpawnerPosition(g, reg, c[1], c[2]) }

FindSpawnerPositionAt(g, reg, x, z) ==
    LET activeSpawners == GetActiveSpawnerPositions(g, reg)
        hits == { i \in 1..Len(activeSpawners) :
                    activeSpawners[i].x = x /\ activeSpawners[i].z = z }
    IN  IF hits = {} THEN Undefined
        ELSE activeSpawners[CHOOSE i \in hits : \A j \in hits : i <= j]

SpawnerY(g, x, z) == Max(GetCurrentHeight(g, x, z) + 2, 2)

CreateSpawnerBlock(s) ==
    IF s.cur = 0 THEN s
    ELSE LET t == s.targets[s.cur]
             spawnerPosition == Pos(t.x, SpawnerY(Reads(s), t.x, t.z), t.z)
             s1 == [Write(s, spawnerPosition, spawnerBlockId) EXCEPT
                      !.reg = RegAdd(@, PosKey(spawnerPosition)),
                      !.targets[s.cur].spawnerPosition = spawnerPosition,
                      !.targets[s.cur].isActive = TRUE]
         IN  Log(s1, "marker", spawnerPosition, {})

\* Faulty variant of PlaceInitialSpawners: the loop ends at the first point
\* that is out of bounds.
RECURSIVE PlaceInitialSpawnersStops(_, _, _)
PlaceInitialSpawnersStops(s, pts, i) ==
    IF i > Len(pts) THEN s
    ELSE LET x == pts[i][1]
             z == pts[i][2]
         IN  IF ~ IsWithinBounds(x, z)
             THEN Log(s, "skip", Pos(x, -1, z), {})
             ELSE LET spawnerPosition == Pos(x, Max(GetCurrentHeight(Reads(s), x, z) + 2, 2), z)
                      s1 == [Write(s, spawnerPosition, spawnerBlockId) EXCEPT
                               !.reg = RegAdd(@, PosKey(spawnerPosition))]
                  IN  PlaceInitialSpawnersStops(
                          Log(s1, "marker", spawnerPosition, {}), pts, i + 1)

\* The loop over initialSpawnPoints, from index i on.
RECURSIVE PlaceInitialSpawners(_, _, _)
PlaceInitialSpawners(s, pts, i) ==
    IF i > Len(pts) THEN s
    ELSE LET x == pts[i][1]
             z == pts[i][2]
         IN  IF ~ IsWithinBounds(x, z)
             THEN PlaceInitialSpawners(Log(s, "skip", Pos(x, -1, z), {}), pts, i + 1)
             ELSE LET spawnerPosition == Pos(x, SpawnerY(Reads(s), x, z), z)
                      s1 == [Write(s, spawnerPosition, spawnerBlockId) EXCEPT
                               !.reg = RegAdd(@, PosKey(spawnerPosition))]
                  IN  PlaceInitialSpawners(
                          Log(s1, "marker", spawnerPosition, {}), pts, i + 1)

\* Faulty variant of CreateInitialSpawners: the flag is not set.
CreateInitialSpawnersForgets(s, pts, t) ==
    LET s1 == PlaceInitialSpawners(s, pts, 1)
    IN  IF Len(pts) > 0 /\ IsWithinBounds(pts[1][1], pts[1][2])
        THEN LET firstSpawn == pts[1]
                 tg == NewTarget(firstSpawn[1], firstSpawn[2], t,
                         FindSpawnerPositionAt(Reads(s1), s1.reg,
                                               firstSpawn[1], firstSpawn[2]))
             IN  [s1 EXCEPT !.targets = Append(@, tg),
                            !.cur = Len(s1.targets) + 1]
        ELSE s1

CreateInitialSpawners(s, pts, t) ==
    LET s1 == [PlaceInitialSpawners(s, pts, 1) EXCEPT !.init = TRUE]
    IN  IF Len(pts) > 0 /\ IsWithinBounds(pts[1][1], pts[1][2])
        THEN LET firstSpawn == pts[1]
                 tg == NewTarget(firstSpawn[1], firstSpawn[2], t,
                         FindSpawnerPositionAt(Reads(s1), s1.reg,
                                               firstSpawn[1], firstSpawn[2]))
             IN  [s1 EXCEPT !.targets = Append(@, tg),
                            !.cur = Len(s1.targets) + 1]
        ELSE s1

\* Faulty variant of SelectNewTarget: a failed selection drops the current
\* target.
SelectNewTargetDrops(s, pts, t) ==
    IF ~ s.init THEN { CreateInitialSpawners(s, pts, t) }
    ELSE LET live == Range(GetActiveSpawnerPositions(Reads(s), s.reg))
         IN  { IF validPosition = NoSite
               THEN Log([s EXCEPT !.cur = 0], "fail", Undefined, live)
               ELSE LET tg == NewTarget(validPosition[1], validPosition[2], t, Undefined)
                        s1 == [s EXCEPT !.targets = Append(@, tg),
                                        !.cur = Len(s.targets) + 1]
                    IN  CreateSpawnerBlock(
                            Log(s1, "select",
                                Pos(validPosition[1], -1, validPosition[2]), live))
               : validPosition \in FindValidSpawnerPosition(Reads(s), s.reg) }

SelectNewTarget(s, pts, t) ==
    IF ~ s.init THEN { CreateInitialSpawners(s, pts, t) }
    ELSE LET live == Range(GetActiveSpawnerPositions(Reads(s), s.reg))
         IN  { IF validPosition = NoSite
               THEN Log(s, "fail", Undefined, live)
               ELSE LET tg == NewTarget(validPosition[1], validPosition[2], t, Undefined)
                        s1 == [s EXCEPT !.targets = Append(@, tg),
                                        !.cur = Len(s.targets) + 1]
                    IN  CreateSpawnerBlock(
                            Log(s1, "select",
                                Pos(validPosition[1], -1, validPosition[2]), live))
               : validPosition \in FindValidSpawnerPosition(Reads(s), s.reg) }

FindTargetByPosition(s, p) ==
    IF s.cur # 0 /\ s.targets[s.cur].spawnerPosition # Undefined
                 /\ s.targets[s.cur].spawnerPosition = p
    THEN s.cur
    ELSE LET hits == { i \in 1..Len(s.hist) :
                         /\ s.targets[s.hist[i]].spawnerPosition # Undefined
                         /\ s.targets[s.hist[i]].spawnerPosition = p }
         IN  IF hits = {} THEN 0
             ELSE s.hist[CHOOSE i \in hits : \A j \in hits : i <= j]

OnSpawnerDestroyed(s, pts, t, p) ==
    LET target == FindTargetByPosition(s, p)
        after ==
          IF target = 0 THEN {s}
          ELSE LET s1 == [s EXCEPT !.targets[target].isActive = FALSE,
                                   !.targets[target].spawnerPosition = Undefined]
                   s2 == Log(s1, "destroyed", p, {})
               IN  IF s.cur = target THEN SelectNewTarget(s2, pts, t) ELSE {s2}
    IN  { [a EXCEPT !.reg = RegDelete(@, PosKey(p))] : a \in after }

(***************************************************************************)
(* The growth step.                                                        *)
(***************************************************************************)
\* (targetElevation, maxRadius, squared distance) for which the double
\* arithmetic of 1 - (Math.sqrt(d2) / maxRadius) ** 2 falls just short of the
\* exact value, so that Math.floor returns one less than the exact quotient.
FloatShortfall ==
    { <<2, 2, 2>>, <<2, 4, 8>>, <<4, 2, 2>>, <<4, 4, 8>>, <<5, 5, 5>>,
      <<5, 5, 20>>, <<6, 2, 2>>, <<6, 4, 8>>, <<8, 2, 2>>, <<8, 4, 8>>,
      <<8, 4, 10>> }

\* Math.floor(target.y * Math.max(0, 1 - (distance / maxRadius) ** 2))
TargetHeightForPosition(y, maxRadius, d2) ==
    IF maxRadius = 0 \/ d2 >= maxRadius * maxRadius THEN 0
    ELSE LET exact == (y * (maxRadius * maxRadius - d2)) \div (maxRadius * maxRadius)
         IN  IF <<y, maxRadius, d2>> \in FloatShortfall THEN exact - 1 ELSE exact

\* Faulty variant of BeyondWave: the wave falls back to the centre on every
\* other step.
BeyondWaveEbbs(d2, stepsElapsed) ==
    LET currentWaveRadius == (stepsElapsed % 2) * stepsElapsed * elevationSpeed
    IN  d2 > currentWaveRadius * currentWaveRadius

\* Faulty variant of BeyondWave: no column is skipped.
BeyondWaveNever(d2, stepsElapsed) == FALSE

\* distanceFromCenter > stepsElapsed * elevationSpeed
BeyondWave(d2, stepsElapsed) ==
    LET currentWaveRadius == stepsElapsed * elevationSpeed
    IN  d2 > currentWaveRadius * currentWaveRadius

\* Faulty variant of Window: the columns are not checked against the bounds.
WindowUnclipped(t) ==
    LET halfTerraform == terraformSize \div 2
    IN  ((t.x - halfTerraform)..(t.x + halfTerraform - 1))
          \X ((t.z - halfTerraform)..(t.z + halfTerraform - 1))

Window(t) ==
    LET halfTerraform == terraformSize \div 2
    IN  { c \in ((t.x - halfTerraform)..(t.x + halfTerraform - 1))
                \X ((t.z - halfTerraform)..(t.z + halfTerraform - 1)) :
            IsWithinBounds(c[1], c[2]) }

ColumnHeight(t, c) ==
    TargetHeightForPosition(t.y, terraformSize \div 2, DistSq(c[1], c[2], t.x, t.z))

\* Faulty variant of Raised: nothing is raised in the first interval of a
\* target.
RaisedLate(g, t, stepsElapsed) ==
    IF stepsElapsed <= 1 THEN {}
    ELSE { c \in Window(t) :
             /\ ~ BeyondWave(DistSq(c[1], c[2], t.x, t.z), stepsElapsed)
             /\ ~ (ColumnHeight(t, c) < 1)
             /\ GetCurrentHeight(g, c[1], c[2]) < ColumnHeight(t, c) }

\* The columns of the window that the step raises.
Raised(g, t, stepsElapsed) ==
    { c \in Window(t) :
        /\ ~ BeyondWave(DistSq(c[1], c[2], t.x, t.z), stepsElapsed)
        /\ ~ (ColumnHeight(t, c) < 1)
        /\ GetCurrentHeight(g, c[1], c[2]) < ColumnHeight(t, c) }

\* Faulty variant of NewHeight: the column jumps to its target height.
NewHeightJump(currentHeight, targetHeightForPosition) == targetHeightForPosition

\* const newHeight = Math.min(currentHeight + 1, targetHeightForPosition)
NewHeight(currentHeight, targetHeightForPosition) ==
    Min(currentHeight + 1, targetHeightForPosition)

\* Faulty variant of FillCell: the fill replaces the highest block of the
\* column.
FillCellAtTop(g, t, c) == Pos(c[1], GetCurrentHeight(g, c[1], c[2]), c[2])

FillCell(g, t, c) ==
    Pos(c[1], NewHeight(GetCurrentHeight(g, c[1], c[2]), ColumnHeight(t, c)), c[2])

\* this.blockTypeId = options.blockTypeId ?? 2
FillBlockId ==
    IF "options" \in DOMAIN survey /\ "blockTypeId" \in DOMAIN survey.options
    THEN survey.options.blockTypeId
    ELSE blockTypeId

\* Every column is read and written once, and a write touches its own
\* column only, so the writes of the loop are independent: `cells` are the
\* cells the loop sets to the fill block.
Grow(g, t, cells) ==
    [q \in (DOMAIN g) \cup cells |-> IF q \in cells THEN FillBlockId ELSE g[q]]

\* Faulty variant of TargetComplete: the columns that were raised are not
\* counted.
TargetCompleteReached(t, stepsElapsed, raised) ==
    \A c \in Window(t) : ~ BeyondWave(DistSq(c[1], c[2], t.x, t.z), stepsElapsed)

\* Faulty variant of TargetComplete: a target is never found complete.
TargetCompleteNever(t, stepsElapsed, raised) == FALSE

\* targetComplete stays true: no column was beyond the wave and none was raised
TargetComplete(t, stepsElapsed, raised) ==
    /\ \A c \in Window(t) : ~ BeyondWave(DistSq(c[1], c[2], t.x, t.z), stepsElapsed)
    /\ raised = {}

\* Faulty variant of PushCompleted: a history that already has entries is
\* emptied instead of extended.
PushCompletedReset(hist, id) == IF hist = << >> THEN << id >> ELSE << >>

\* this.completedTargets.push(this.currentTarget)
PushCompleted(hist, id) == Append(hist, id)

\* console.error for the writes of the loop that threw
LogFailed(s, cells) == IF cells = {} THEN s ELSE Log(s, "failed", Undefined, cells)

TerraformStep(s, pts, t) ==
    IF s.cur = 0 THEN SelectNewTarget(s, pts, t)
    ELSE IF ~ s.targets[s.cur].isActive THEN SelectNewTarget(s, pts, t)
    ELSE IF /\ s.targets[s.cur].spawnerPosition # Undefined
            /\ ~ IsSpawnerBlockPresent(Reads(s), s.targets[s.cur].spawnerPosition)
    THEN LET sp == s.targets[s.cur].spawnerPosition
             s1 == [s EXCEPT !.targets[s.cur].isActive = FALSE]
         IN  UNION { SelectNewTarget(a, pts, t) :
                       a \in OnSpawnerDestroyed(s1, pts, t, sp) }
    ELSE LET tg == s.targets[s.cur]
             stepsElapsed == t - tg.startTime
             raised == Raised(Reads(s), tg, stepsElapsed)
             cells == { FillCell(Reads(s), tg, c) : c \in raised }
             s1 == LogFailed(
                       Log([s EXCEPT !.grid = Grow(s.grid, tg, Writes(s, cells))],
                           "fills", Undefined, cells),
                       cells \cap s.fail.w)
         IN  IF TargetComplete(tg, stepsElapsed, raised)
             THEN SelectNewTarget(
                      Log([s1 EXCEPT !.hist = PushCompleted(@, s.cur)],
                          "complete", Pos(tg.x, tg.y, tg.z), {}),
                      pts, t)
             ELSE {s1}

\* this.spawnerPositions.forEach(posKey => this.setBlock(x, y, z, 0))
RECURSIVE ClearBlocks(_, _, _)
ClearBlocks(g, reg, i) ==
    IF i > Len(reg) THEN g
    ELSE ClearBlocks(SetBlock(g, ParseKey(reg[i]), AIR), reg, i + 1)

(***************************************************************************)
(* The host's timers.                                                      *)
(***************************************************************************)
TimerHandles == 1..MaxTimers

FreshHandle(tm) == CHOOSE h \in TimerHandles : h \notin tm /\ \A k \in TimerHandles \ tm : h <= k

\* setInterval: one more periodic driver runs
SetInterval(tm) == tm \cup {FreshHandle(tm)}

\* Faulty variant of ClearInterval: every driver of the host is cleared.
ClearIntervalAll(tm, h) == {}

\* Faulty variant of ClearInterval: the driver keeps running.
ClearIntervalKeeps(tm, h) == tm

\* clearInterval: the driver with this handle runs no more
ClearInterval(tm, h) == tm \ {h}

(***************************************************************************)
(* The bounds check for any footprint: options are the constructor options *)
(* centerX, centerZ and size.  A survey asks isWithinBounds about every    *)
(* column of a box around the centre that extends beyond the footprint on  *)
(* every side, one column after the other, and collects the accepted ones. *)
(***************************************************************************)
Options(cx, cz, sz) == [centerX |-> cx, centerZ |-> cz, size |-> sz]

IsWithinBoundsOf(o, x, z) ==
    LET halfSize == o.size \div 2
        minX == o.centerX - halfSize
        maxX == o.centerX + halfSize - 1
        minZ == o.centerZ - halfSize
        maxZ == o.centerZ + halfSize - 1
    IN  x >= minX /\ x <= maxX /\ z >= minZ /\ z <= maxZ

SurveySide(o) == 2 * o.size + 1

\* The i-th column of the surveyed box, i = 0, 1, ...
SurveyColumn(o, i) ==
    << o.centerX - o.size + (i \div SurveySide(o)),
       o.centerZ - o.size + (i % SurveySide(o)) >>

NewSurvey(o) == [options |-> o, next |-> 0, accepted |-> {}]

SurveyDone(v) == v.next = SurveySide(v.options) * SurveySide(v.options)

(***************************************************************************)
(* Block breaking (src/blockBreaking.ts): the damage of the blocks, kept   *)
(* by coordinate in the singleton TerrainManager, and the pickaxe hits of  *)
(* the players, each applied 100 ms after the swing to the block that the  *)
(* raycast of the swing has found.                                         *)
(***************************************************************************)
\* PickaxeEntity.damage
pickaxeDamage == 10

\* thresholds[blockId] || 20
defaultThreshold == 20

\* const thresholds = { 4: 10, 19: 25, 2: 8, 7: 8, 17: 8, 1: 15, 3: 20 }
Thresholds ==
    (4 :> 10) @@ (19 :> 25) @@ (2 :> 8) @@ (7 :> 8) @@ (17 :> 8) @@ (1 :> 15) @@ (3 :> 20)

GetBreakThreshold(blockId) ==
    IF blockId \in DOMAIN Thresholds THEN Thresholds[blockId] ELSE defaultThreshold

\* Math.abs(x) <= 2 && Math.abs(z) <= 2
InBunker(x, z) == Abs(x) <= bunkerHalf /\ Abs(z) <= bunkerHalf

\* hit.hitBlock: the coordinate and the block type the raycast found
HitBlock(g, p) == [pos |-> p, id |-> GetBlockId(g, p)]

Players == 1..MaxPlayers

NoBlock == [pos |-> Undefined, id |-> AIR]

\* _blockDamages, the hits that wait for their timeout in the order in
\* which they were set (the delay is the same for all), the number of
\* swings so far, and the last call of damageBlock with what it returned.
NewTerrain ==
    [blockDamages |-> << >>,
     pending      |-> << >>,
     uses         |-> 0,
     call         |-> [block |-> NoBlock, returned |-> FALSE]]

\* Faulty variant of DamageBlock: the bunker is not protected.
DamageBlockUnprotected(t, g, block, damage) ==
    LET key     == PosKey(block.pos)
        tracker == IF key \in DOMAIN t.blockDamages THEN t.blockDamages[key]
                   ELSE [blockId |-> block.id, damage |-> 0]
        total   == tracker.damage + damage
    IN  IF total >= GetBreakThreshold(block.id)
        THEN [terrain |-> [t EXCEPT !.blockDamages =
                                        [k \in (DOMAIN @) \ {key} |-> @[k]],
                                    !.call = [block |-> block, returned |-> TRUE]],
              grid    |-> SetBlock(g, block.pos, AIR)]
        ELSE [terrain |-> [t EXCEPT !.blockDamages =
                                        [k \in (DOMAIN @) \cup {key} |->
                                            IF k = key
                                            THEN [tracker EXCEPT !.damage = total]
                                            ELSE @[k]],
                                    !.call = [block |-> block, returned |-> FALSE]],
              grid    |-> g]

\* Faulty variant of DamageBlock: the record of a block that breaks is kept.
DamageBlockKeeps(t, g, block, damage) ==
    LET key     == PosKey(block.pos)
        tracker == IF key \in DOMAIN t.blockDamages THEN t.blockDamages[key]
                   ELSE [blockId |-> block.id, damage |-> 0]
        total   == tracker.damage + damage
    IN  IF InBunker(block.pos.x, block.pos.z) /\ block.pos.y = 0
        THEN [terrain |-> [t EXCEPT !.call = [block |-> block, returned |-> FALSE]],
              grid    |-> g]
        ELSE [terrain |-> [t EXCEPT !.blockDamages =
                                        [k \in (DOMAIN @) \cup {key} |->
                                            IF k = key
                                            THEN [tracker EXCEPT !.damage = total]
                                            ELSE @[k]],
                                    !.call = [block |-> block,
                                              returned |-> total >= GetBreakThreshold(block.id)]],
              grid    |-> IF total >= GetBreakThreshold(block.id)
                          THEN SetBlock(g, block.pos, AIR) ELSE g]

\* TerrainManager.damageBlock(world, block, damage)
DamageBlock(t, g, block, damage) ==
    LET key     == PosKey(block.pos)
        tracker == IF key \in DOMAIN t.blockDamages THEN t.blockDamages[key]
                   ELSE [blockId |-> block.id, damage |-> 0]
        total   == tracker.damage + damage
    IN  IF InBunker(block.pos.x, block.pos.z) /\ block.pos.y = 0
        THEN [terrain |-> [t EXCEPT !.call = [block |-> block, returned |-> FALSE]],
              grid    |-> g]
        ELSE IF total >= GetBreakThreshold(block.id)
        THEN [terrain |-> [t EXCEPT !.blockDamages =
                                        [k \in (DOMAIN @) \ {key} |-> @[k]],
                                    !.call = [block |-> block, returned |-> TRUE]],
              grid    |-> SetBlock(g, block.pos, AIR)]
        ELSE [terrain |-> [t EXCEPT !.blockDamages =
                                        [k \in (DOMAIN @) \cup {key} |->
                                            IF k = key
                                            THEN [tracker EXCEPT !.damage = total]
                                            ELSE @[k]],
                                    !.call = [block |-> block, returned |-> FALSE]],
              grid    |-> g]

(***************************************************************************)
(* A second instance of the class on the same grid and the same host: its  *)
(* footprint is that of the first zone moved by PeerShift along x, and so  *)
(* are its initial points.  The code is the same for every centre, so the  *)
(* second zone's fields are kept relative to its own centre and its        *)
(* handlers run on the grid as seen from there.                            *)
(***************************************************************************)
PeerShift == size

NewPeer ==
    [isActive |-> FALSE, intervalId |-> 0, cur |-> 0, targets |-> << >>,
     hist |-> << >>, reg |-> << >>, init |-> FALSE, lastTick |-> 0]

ShiftPos(p, d) == Pos(p.x + d, p.y, p.z)

ShiftGrid(g, d) ==
    [q \in { ShiftPos(p, d) : p \in DOMAIN g } |-> g[ShiftPos(q, 0 - d)]]

(***************************************************************************)
(* The state machine.                                                      *)
(***************************************************************************)
\* The zone as a handler finds it when the grid calls in f fail.
ZoneWith(f) ==
    [cur |-> currentTarget, targets |-> targets, hist |-> completedTargets,
     reg |-> spawnerPositions, init |-> hasInitialSpawners, grid |-> grid,
     trace |-> << >>, fail |-> f]

Zone == ZoneWith(NoFaults)

Install(s) ==
    /\ currentTarget' = s.cur
    /\ targets' = s.targets
    /\ completedTargets' = s.hist
    /\ spawnerPositions' = s.reg
    /\ hasInitialSpawners' = s.init
    /\ grid' = s.grid
    /\ trace' = s.trace

ZoneUnchanged ==
    UNCHANGED << currentTarget, targets, completedTargets, spawnerPositions,
                 hasInitialSpawners, grid >>

Init ==
    /\ isActive = FALSE
    /\ intervalId = 0
    /\ timers = {}
    /\ currentTarget = 0
    /\ targets = << >>
    /\ completedTargets = << >>
    /\ spawnerPositions = << >>
    /\ hasInitialSpawners = FALSE
    /\ initialSpawnPoints \in InitialPointLists
    /\ grid = << >>
    /\ now = 0
    /\ external = 0
    /\ lastOp = "new"
    /\ trace = << >>
    /\ peer = NewPeer
    /\ terrain = NewTerrain
    /\ survey = NewSurvey(Options(centerX, centerZ, size))

\* Faulty variant of StartActive: start() without the isActive guard.
StartActiveAgain ==
    /\ isActive
    /\ \E s \in SelectNewTarget(Zone, initialSpawnPoints, now) :
          Len(s.targets) <= MaxTargets /\ Install(s)
    /\ timers' = SetInterval(timers)
    /\ intervalId' = FreshHandle(timers)
    /\ lastOp' = "start"
    /\ UNCHANGED << isActive, initialSpawnPoints, survey, peer, terrain, now, external >>

\* start() on a running zone: a warning only
StartActive ==
    /\ isActive
    /\ lastOp' = "start"
    /\ trace' = << >>
    /\ ZoneUnchanged
    /\ UNCHANGED << isActive, intervalId, timers, initialSpawnPoints, survey, peer, terrain, now,
                    external >>

\* start() on a stopped zone
StartStopped ==
    /\ ~ isActive
    /\ isActive' = TRUE
    /\ \E s \in SelectNewTarget(Zone, initialSpawnPoints, now) :
          Len(s.targets) <= MaxTargets /\ Install(s)
    /\ timers' = SetInterval(timers)
    /\ intervalId' = FreshHandle(timers)
    /\ lastOp' = "start"
    /\ UNCHANGED << initialSpawnPoints, survey, peer, terrain, now, external >>

\* stop() on a stopped zone
StopStopped ==
    /\ ~ isActive
    /\ lastOp' = "stop"
    /\ trace' = << >>
    /\ ZoneUnchanged
    /\ UNCHANGED << isActive, intervalId, timers, initialSpawnPoints, survey, peer, terrain, now,
                    external >>

\* Faulty variant of StopActive: the flag is cleared and the driver is left
\* attached.
StopActiveLeavesDriver ==
    /\ isActive
    /\ external < MaxExternal
    /\ external' = external + 1
    /\ isActive' = FALSE
    /\ lastOp' = "stop"
    /\ trace' = << >>
    /\ ZoneUnchanged
    /\ UNCHANGED << intervalId, timers, initialSpawnPoints, survey, peer, terrain, now >>

\* stop() on a running zone
StopActive ==
    /\ isActive
    /\ external < MaxExternal
    /\ external' = external + 1
    /\ isActive' = FALSE
    /\ IF intervalId # 0
       THEN timers' = ClearInterval(timers, intervalId) /\ intervalId' = 0
       ELSE UNCHANGED << timers, intervalId >>
    /\ lastOp' = "stop"
    /\ trace' = << >>
    /\ ZoneUnchanged
    /\ UNCHANGED << initialSpawnPoints, survey, peer, terrain, now >>

\* A periodic driver fires one interval later and runs terraformStep().
Tick ==
    /\ timers # {}
    /\ now < MaxTime
    /\ now' = now + 1
    /\ \E s \in TerraformStep(Zone, initialSpawnPoints, now + 1) :
          Len(s.targets) <= MaxTargets /\ Install(s)
    /\ lastOp' = "tick"
    /\ UNCHANGED << isActive, intervalId, timers, initialSpawnPoints, survey, peer, terrain,
                    external >>

\* An interval passes in which no driver is running.
Delay ==
    /\ timers = {}
    /\ now < MaxTime
    /\ now' = now + 1
    /\ lastOp' = "delay"
    /\ trace' = << >>
    /\ ZoneUnchanged
    /\ UNCHANGED << isActive, intervalId, timers, initialSpawnPoints, survey, peer, terrain,
                    external >>

\* clearAllSpawners(): a public method, callable at any time
ClearAllSpawners ==
    /\ grid' = ClearBlocks(grid, spawnerPositions, 1)
    /\ spawnerPositions' = << >>
    /\ lastOp' = "clear"
    /\ trace' = << >>
    /\ UNCHANGED << isActive, intervalId, timers, currentTarget, targets,
                    completedTargets, hasInitialSpawners, initialSpawnPoints, survey, peer, terrain,
                    now, external >>

\* The player breaks a block above ground level (the pickaxe ignores hits at
\* y <= 0); the zone is not notified.
PlayerBreak ==
    /\ external < MaxExternal
    /\ \E p \in DOMAIN grid :
          /\ grid[p] # AIR
          /\ p.y > 0
          /\ grid' = SetBlock(grid, p, AIR)
          /\ trace' = << Event("break", p, {}) >>
    /\ external' = external + 1
    /\ lastOp' = "break"
    /\ UNCHANGED << isActive, intervalId, timers, currentTarget, targets,
                    completedTargets, spawnerPositions, hasInitialSpawners,
                    initialSpawnPoints, survey, peer, terrain, now >>

Next ==
    \/ StartActive
    \/ StartStopped
    \/ StopStopped
    \/ StopActive
    \/ Tick
    \/ Delay
    \/ ClearAllSpawners
    \/ PlayerBreak

Spec == Init /\ [][Next]_vars

\* A tick whose target selection binds a new target.
TickBinds ==
    /\ lastOp' = "tick"
    /\ \E i \in 1..Len(trace') : trace'[i].ev = "select"
    /\ Tick

\* Such a tick is possible: the driver is attached and the step, run one
\* interval from now, has an outcome in which a site is selected.  This is
\* ENABLED TickBinds, written out.
CanBind ==
    /\ timers # {}
    /\ now < MaxTime
    /\ \E s \in TerraformStep(Zone, initialSpawnPoints, now + 1) :
          /\ Len(s.targets) <= MaxTargets
          /\ \E i \in 1..Len(s.trace) : s.trace[i].ev = "select"

\* Fair random sampling: if over and over a tick can hit a valid site, then
\* over and over a tick does.  This is SF_vars(TickBinds), with CanBind for
\* ENABLED <<TickBinds>>_vars.
FairSampling == <>[](~ CanBind) \/ []<><<TickBinds>>_vars

\* The player breaks a marker block; the zone is not notified.
PlayerBreakMarker ==
    /\ external < MaxExternal
    /\ \E p \in DOMAIN grid :
          /\ grid[p] = spawnerBlockId
          /\ p.y > 0
          /\ grid' = SetBlock(grid, p, AIR)
          /\ trace' = << Event("break", p, {}) >>
    /\ external' = external + 1
    /\ lastOp' = "break"
    /\ UNCHANGED << isActive, intervalId, timers, currentTarget, targets,
                    completedTargets, spawnerPositions, hasInitialSpawners,
                    initialSpawnPoints, survey, peer, terrain, now >>

\* A zone that is started once and left running, while the player breaks
\* markers.
FairNext ==
    \/ StartStopped
    \/ Tick
    \/ PlayerBreakMarker

FairSpec == Init /\ [][FairNext]_vars /\ FairSampling

(***************************************************************************)
(* A zone that is started once and left running for longer, while the      *)
(* player digs at the sites of the completed targets: the blocks in the    *)
(* column of a marker that a history entry references.                     *)
(***************************************************************************)
SiteTick ==
    /\ timers # {}
    /\ now < MaxSiteTime
    /\ now' = now + 1
    /\ \E s \in TerraformStep(Zone, initialSpawnPoints, now + 1) :
          Len(s.targets) <= MaxTargets /\ Install(s)
    /\ lastOp' = "tick"
    /\ UNCHANGED << isActive, intervalId, timers, initialSpawnPoints, survey, peer, terrain,
                    external >>

PlayerDigsSite ==
    /\ external < MaxDig
    /\ \E p \in DOMAIN grid :
          /\ grid[p] # AIR
          /\ p.y > 0
          /\ \E i \in 1..Len(completedTargets) :
                LET sp == targets[completedTargets[i]].spawnerPosition
                IN  sp # Undefined /\ sp.x = p.x /\ sp.z = p.z
          /\ grid' = SetBlock(grid, p, AIR)
          /\ trace' = << Event("break", p, {}) >>
    /\ external' = external + 1
    /\ lastOp' = "break"
    /\ UNCHANGED << isActive, intervalId, timers, currentTarget, targets,
                    completedTargets, spawnerPositions, hasInitialSpawners,
                    initialSpawnPoints, survey, peer, terrain, now >>

SiteNext ==
    \/ StartStopped
    \/ SiteTick
    \/ PlayerDigsSite

SiteSpec == Init /\ [][SiteNext]_vars

(***************************************************************************)
(* A zone that is configured with the block type of the markers as its     *)
(* fill block, as the zone of stone blocks of src/index.ts, and with       *)
(* initial points in neighbouring columns.                                 *)
(***************************************************************************)
StoneOptions ==
    [centerX |-> centerX, centerZ |-> centerZ, size |-> size,
     blockTypeId |-> spawnerBlockId]

StonePointLists ==
    { << <<0, 0>>, <<1, 0>> >>,
      << <<-3, -3>>, <<2, -3>> >> }

StoneInit ==
    /\ isActive = FALSE
    /\ intervalId = 0
    /\ timers = {}
    /\ currentTarget = 0
    /\ targets = << >>
    /\ completedTargets = << >>
    /\ spawnerPositions = << >>
    /\ hasInitialSpawners = FALSE
    /\ initialSpawnPoints \in StonePointLists
    /\ grid = << >>
    /\ now = 0
    /\ external = 0
    /\ lastOp = "new"
    /\ trace = << >>
    /\ peer = NewPeer
    /\ terrain = NewTerrain
    /\ survey = NewSurvey(StoneOptions)

StoneNext ==
    \/ StartStopped
    \/ Tick
    \/ PlayerBreak

StoneSpec == StoneInit /\ [][StoneNext]_vars

(***************************************************************************)
(* The zone and the players with their pickaxes.  A swing finds one block  *)
(* above ground level or two at consecutive levels, and each hit reaches   *)
(* damageBlock 100 ms later, by which time the grid may have changed.  The *)
(* cooldown of a pickaxe is 500 ms: when a player swings again, his own    *)
(* hits and every hit that was waiting when one of his was applied have    *)
(* been applied.                                                           *)
(***************************************************************************)
\* A hit on its way: whose it is, the block the raycast found, and the
\* players one of whose hits was applied while it waited.
PendingHit(pl, block) == [player |-> pl, block |-> block, passed |-> {}]

\* this._cooldown is over and the earlier timeouts have fired
CanSwing(pl) ==
    \A i \in 1..Len(terrain.pending) :
       /\ terrain.pending[i].player # pl
       /\ pl \notin terrain.pending[i].passed
\* The hits of one swing, in the order of their timeouts.
SwingTargets ==
    LET blocks == { p \in DOMAIN grid : grid[p] # AIR /\ p.y > 0 }
    IN  { << HitBlock(grid, p) >> : p \in blocks }
          \cup { << HitBlock(grid, pq[1]), HitBlock(grid, pq[2]) >> :
                   pq \in { pq \in blocks \X blocks :
                              /\ pq[2].y = pq[1].y + 1
                              /\ DistSq(pq[1].x, pq[1].z, pq[2].x, pq[2].z) <= 1 } }

\* PickaxeEntity.use() of one of `players`
Swing(players) ==
    /\ \E pl \in players : \E hits \in SwingTargets :
          /\ CanSwing(pl)
          /\ terrain' = [terrain EXCEPT
                           !.pending = @ \o [i \in 1..Len(hits) |-> PendingHit(pl, hits[i])],
                           !.uses = @ + 1]
    /\ lastOp' = "use"
    /\ trace' = << >>
    /\ UNCHANGED << isActive, intervalId, timers, currentTarget, targets,
                    completedTargets, spawnerPositions, hasInitialSpawners,
                    initialSpawnPoints, grid, now, external, survey, peer >>

\* A player swings the pickaxe.
PickaxeUse == terrain.uses < MaxSwings /\ Swing(Players)

\* setTimeout(() => TerrainManager.instance.damageBlock(world, hit.hitBlock, this.damage), 100)
ApplyHit ==
    /\ terrain.pending # << >>
    /\ LET hit  == Head(terrain.pending)
           r    == DamageBlock(terrain, grid, hit.block, pickaxeDamage)
           rest == Tail(terrain.pending)
       IN  /\ terrain' = [r.terrain EXCEPT
                            !.pending = [i \in 1..Len(rest) |->
                                           [rest[i] EXCEPT !.passed = @ \cup {hit.player}]]]
           /\ grid' = r.grid
           /\ trace' = << Event("hit", hit.block.pos, {}) >>
    /\ lastOp' = "hit"
    /\ UNCHANGED << isActive, intervalId, timers, currentTarget, targets,
                    completedTargets, spawnerPositions, hasInitialSpawners,
                    initialSpawnPoints, now, external, survey, peer >>

\* The cells of the ground for which damageBlock is called directly: two in
\* the bunker and one outside it.
GroundCells == { Pos(0, 0, 0), Pos(2, 0, -2), Pos(-3, 0, 0) }

\* damageBlock called for a block of the ground (the method is public; the
\* pickaxe passes over the hits at y <= 0).
GroundCall ==
    /\ terrain.uses < MaxHits
    /\ \E p \in GroundCells :
          /\ GetBlockId(grid, p) # AIR
          /\ LET r == DamageBlock(terrain, grid, HitBlock(grid, p), pickaxeDamage)
             IN  /\ terrain' = [r.terrain EXCEPT !.uses = @ + 1]
                 /\ grid' = r.grid
                 /\ trace' = << Event("hit", p, {}) >>
    /\ lastOp' = "call"
    /\ UNCHANGED << isActive, intervalId, timers, currentTarget, targets,
                    completedTargets, spawnerPositions, hasInitialSpawners,
                    initialSpawnPoints, now, external, survey, peer >>

\* The driver of the zone fires one interval later.
HitTick == now < MaxHitTime /\ Tick

HitNext ==
    \/ StartStopped
    \/ HitTick
    \/ ClearAllSpawners
    \/ PickaxeUse
    \/ ApplyHit

HitSpec == Init /\ [][HitNext]_vars

(***************************************************************************)
(* damageBlock and its callers: one player, and calls for blocks of the    *)
(* ground; the zone fills with clay or with a block type that has no entry *)
(* in the table of thresholds.                                             *)
(***************************************************************************)
DamageFillTypes == { blockTypeId, 6 }

DamageOptions(fill) ==
    [centerX |-> centerX, centerZ |-> centerZ, size |-> size, blockTypeId |-> fill]

DamageInit ==
    /\ isActive = FALSE
    /\ intervalId = 0
    /\ timers = {}
    /\ currentTarget = 0
    /\ targets = << >>
    /\ completedTargets = << >>
    /\ spawnerPositions = << >>
    /\ hasInitialSpawners = FALSE
    /\ initialSpawnPoints = << <<-3, -3>>, <<2, -3>> >>
    /\ grid = << >>
    /\ now = 0
    /\ external = 0
    /\ lastOp = "new"
    /\ trace = << >>
    /\ peer = NewPeer
    /\ terrain = NewTerrain
    /\ \E fill \in DamageFillTypes : survey = NewSurvey(DamageOptions(fill))

\* The player swings the pickaxe.
SoloUse == terrain.uses < MaxHits /\ Swing({1})

DamageNext ==
    \/ StartStopped
    \/ HitTick
    \/ SoloUse
    \/ ApplyHit
    \/ GroundCall

DamageSpec == DamageInit /\ [][DamageNext]_vars

(***************************************************************************)
(* A zone on a grid whose calls can fail: while a handler runs, the read   *)
(* or the write of one cell throws.  The cells whose read can fail are the *)
(* blocks placed since the map was loaded; the cells whose write can fail  *)
(* are those the handler writes when nothing fails.  A failure counts as   *)
(* an intervention from outside, like a block the player breaks.           *)
(***************************************************************************)
ReadFaults == { [r |-> {p}, w |-> {}] : p \in { q \in DOMAIN grid : grid[q] # AIR } }

\* The cells a handler with the outcomes `outs` writes.
WrittenCells(outs) ==
    UNION { UNION { IF o.trace[i].ev = "fills" THEN o.trace[i].live
                    ELSE IF o.trace[i].ev = "marker" THEN { o.trace[i].pos }
                    ELSE {} : i \in 1..Len(o.trace) } : o \in outs }

WriteFaults(outs) == { [r |-> {}, w |-> {p}] : p \in WrittenCells(outs) }

\* The zone as the handler finds it; the trace notes the reads that throw
\* (hasBlockAt and isSpawnerBlockPresent catch without a message).
Faulted(f) ==
    IF f.r = {} THEN ZoneWith(f) ELSE Log(ZoneWith(f), "throws", Undefined, f.r)

\* start() on a stopped zone, with a grid call that fails
FaultyStart ==
    /\ ~ isActive
    /\ external < MaxFaults
    /\ external' = external + 1
    /\ isActive' = TRUE
    /\ \E f \in ReadFaults \cup WriteFaults(SelectNewTarget(Zone, initialSpawnPoints, now)) :
          \E s \in SelectNewTarget(Faulted(f), initialSpawnPoints, now) :
            Len(s.targets) <= MaxTargets /\ Install(s)
    /\ timers' = SetInterval(timers)
    /\ intervalId' = FreshHandle(timers)
    /\ lastOp' = "start"
    /\ UNCHANGED << initialSpawnPoints, survey, peer, terrain, now >>

\* A tick with a grid call that fails
FaultyTick ==
    /\ timers # {}
    /\ now < MaxTime
    /\ external < MaxFaults
    /\ external' = external + 1
    /\ now' = now + 1
    /\ \E f \in ReadFaults \cup WriteFaults(TerraformStep(Zone, initialSpawnPoints, now + 1)) :
          \E s \in TerraformStep(Faulted(f), initialSpawnPoints, now + 1) :
            Len(s.targets) <= MaxTargets /\ Install(s)
    /\ lastOp' = "tick"
    /\ UNCHANGED << isActive, intervalId, timers, initialSpawnPoints, survey, peer, terrain >>

FaultNext ==
    \/ StartStopped
    \/ FaultyStart
    \/ Tick
    \/ FaultyTick
    \/ PlayerBreak

FaultSpec == Init /\ [][FaultNext]_vars

(***************************************************************************)
(* Two zones, as src/index.ts runs several: each has its own driver, which *)
(* runs its own step once per interval; the clock advances with the ticks  *)
(* of the first zone.                                                      *)
(***************************************************************************)
PeerZone ==
    [cur |-> peer.cur, targets |-> peer.targets, hist |-> peer.hist,
     reg |-> peer.reg, init |-> peer.init,
     grid |-> ShiftGrid(grid, 0 - PeerShift), trace |-> << >>, fail |-> NoFaults]

InstallPeer(o, p) ==
    /\ grid' = ShiftGrid(o.grid, PeerShift)
    /\ peer' = [p EXCEPT !.cur = o.cur, !.targets = o.targets, !.hist = o.hist,
                         !.reg = o.reg, !.init = o.init]

FirstUnchanged ==
    UNCHANGED << isActive, intervalId, currentTarget, targets, completedTargets,
                 spawnerPositions, hasInitialSpawners, initialSpawnPoints,
                 survey, terrain >>

\* The first zone's driver fires one interval later.
OwnTick == intervalId \in timers /\ now < MaxPairTime /\ Tick

\* start() of the second zone, stopped
PeerStartStopped ==
    /\ ~ peer.isActive
    /\ \E o \in SelectNewTarget(PeerZone, initialSpawnPoints, now) :
          /\ Len(o.targets) <= MaxTargets
          /\ InstallPeer(o, [peer EXCEPT !.isActive = TRUE,
                                         !.intervalId = FreshHandle(timers),
                                         !.lastTick = now])
    /\ timers' = SetInterval(timers)
    /\ lastOp' = "peer start"
    /\ trace' = << >>
    /\ FirstUnchanged
    /\ UNCHANGED << now, external >>

\* stop() of the second zone, running
PeerStopActive ==
    /\ peer.isActive
    /\ external < MaxExternal
    /\ external' = external + 1
    /\ IF peer.intervalId # 0
       THEN /\ timers' = ClearInterval(timers, peer.intervalId)
            /\ peer' = [peer EXCEPT !.isActive = FALSE, !.intervalId = 0]
       ELSE /\ timers' = timers
            /\ peer' = [peer EXCEPT !.isActive = FALSE]
    /\ lastOp' = "peer stop"
    /\ trace' = << >>
    /\ FirstUnchanged
    /\ UNCHANGED << grid, now >>

\* The second zone's driver fires in an interval in which it has not yet.
PeerTick ==
    /\ peer.intervalId \in timers
    /\ peer.lastTick < now
    /\ \E o \in TerraformStep(PeerZone, initialSpawnPoints, now) :
          /\ Len(o.targets) <= MaxTargets
          /\ InstallPeer(o, [peer EXCEPT !.lastTick = now])
    /\ lastOp' = "peer tick"
    /\ trace' = << >>
    /\ FirstUnchanged
    /\ UNCHANGED << timers, now, external >>

PairNext ==
    \/ StartStopped
    \/ StopActive
    \/ OwnTick
    \/ PeerStartStopped
    \/ PeerStopActive
    \/ PeerTick

PairSpec == Init /\ [][PairNext]_vars

(***************************************************************************)
(* The variant of the class without spawners (src/terraforming.ts, lines   *)
(* 594-844): the same start/stop state machine and growth step, with a     *)
(* target drawn at random from the footprint and no marker.  Its state is  *)
(* kept in the same variables; the registry, the history and the initial   *)
(* points, which it does not have, stay empty.  The variant reads the      *)
(* clock only as the age of its target, and start() always draws a new     *)
(* target, so the time a zone spends stopped is not modelled: the clock    *)
(* advances with the ticks.                                                *)
(***************************************************************************)
PlainTarget(x, z, t) == [x |-> x, y |-> targetHeight, z |-> z, startTime |-> t]

\* Math.floor(Math.random() * n), with Math.random() in [0, 1)
RandomBelow(n) == IF n > 0 THEN 0..(n - 1) ELSE n..0

PlainSelectNewTarget(s, t) ==
    LET halfSize == size \div 2
        minX == centerX - halfSize
        maxX == centerX + halfSize - 1
        minZ == centerZ - halfSize
        maxZ == centerZ + halfSize - 1
        terraformHalf == terraformSize \div 2
    IN  { [s EXCEPT !.targets = Append(@, PlainTarget(rx + minX + terraformHalf,
                                                      rz + minZ + terraformHalf, t)),
                    !.cur = Len(s.targets) + 1]
          : rx \in RandomBelow(maxX - minX + 1 - terraformSize),
            rz \in RandomBelow(maxZ - minZ + 1 - terraformSize) }

\* Faulty variant of PlainTerraformStep: the first step of a target raises
\* no column.
PlainTerraformStepLate(s, t) ==
    IF s.cur = 0 THEN PlainSelectNewTarget(s, t)
    ELSE LET tg == s.targets[s.cur]
             stepsElapsed == t - tg.startTime
             raised == RaisedLate(Reads(s), tg, stepsElapsed)
             cells == { FillCell(Reads(s), tg, c) : c \in raised }
             s1 == LogFailed(
                       Log([s EXCEPT !.grid = Grow(s.grid, tg, Writes(s, cells))],
                           "fills", Undefined, cells),
                       cells \cap s.fail.w)
         IN  IF TargetComplete(tg, stepsElapsed, raised)
             THEN PlainSelectNewTarget(
                      Log(s1, "complete", Pos(tg.x, tg.y, tg.z), {}), t)
             ELSE {s1}

PlainTerraformStep(s, t) ==
    IF s.cur = 0 THEN PlainSelectNewTarget(s, t)
    ELSE LET tg == s.targets[s.cur]
             stepsElapsed == t - tg.startTime
             raised == Raised(Reads(s), tg, stepsElapsed)
             cells == { FillCell(Reads(s), tg, c) : c \in raised }
             s1 == LogFailed(
                       Log([s EXCEPT !.grid = Grow(s.grid, tg, Writes(s, cells))],
                           "fills", Undefined, cells),
                       cells \cap s.fail.w)
         IN  IF TargetComplete(tg, stepsElapsed, raised)
             THEN PlainSelectNewTarget(
                      Log(s1, "complete", Pos(tg.x, tg.y, tg.z), {}), t)
             ELSE {s1}

PlainInit ==
    /\ isActive = FALSE
    /\ intervalId = 0
    /\ timers = {}
    /\ currentTarget = 0
    /\ targets = << >>
    /\ completedTargets = << >>
    /\ spawnerPositions = << >>
    /\ hasInitialSpawners = FALSE
    /\ initialSpawnPoints = << >>
    /\ grid = << >>
    /\ now = 0
    /\ external = 0
    /\ lastOp = "new"
    /\ trace = << >>
    /\ peer = NewPeer
    /\ terrain = NewTerrain
    /\ survey = NewSurvey(Options(centerX, centerZ, size))

\* start() on a stopped zone
PlainStartStopped ==
    /\ ~ isActive
    /\ isActive' = TRUE
    /\ \E s \in PlainSelectNewTarget(Zone, now) :
          Len(s.targets) <= MaxTargets /\ Install(s)
    /\ timers' = SetInterval(timers)
    /\ intervalId' = FreshHandle(timers)
    /\ lastOp' = "start"
    /\ UNCHANGED << initialSpawnPoints, survey, peer, terrain, now, external >>

\* The periodic driver fires one interval later and runs terraformStep().
PlainTick ==
    /\ timers # {}
    /\ now < MaxPlainTime
    /\ now' = now + 1
    /\ \E s \in PlainTerraformStep(Zone, now + 1) :
          Len(s.targets) <= MaxTargets /\ Install(s)
    /\ lastOp' = "tick"
    /\ UNCHANGED << isActive, intervalId, timers, initialSpawnPoints, survey, peer, terrain,
                    external >>

PlainNext ==
    \/ StartActive
    \/ PlainStartStopped
    \/ StopStopped
    \/ StopActive
    \/ PlainTick

PlainSpec == PlainInit /\ [][PlainNext]_vars

(***************************************************************************)
(* Zones of any footprint: a zone is constructed for a size and a centre   *)
(* and its bounds check is surveyed.                                       *)
(***************************************************************************)
BoundsInit ==
    /\ \E sz \in SurveySizes : \E c \in SurveyCenters :
          /\ survey = NewSurvey(Options(c[1], c[2], sz))
          /\ initialSpawnPoints = << c >>
    /\ isActive = FALSE
    /\ intervalId = 0
    /\ timers = {}
    /\ currentTarget = 0
    /\ targets = << >>
    /\ completedTargets = << >>
    /\ spawnerPositions = << >>
    /\ hasInitialSpawners = FALSE
    /\ grid = << >>
    /\ now = 0
    /\ external = 0
    /\ lastOp = "new"
    /\ trace = << >>
    /\ peer = NewPeer
    /\ terrain = NewTerrain

\* isWithinBounds(x, z) for the next column of the box
SurveyProbe ==
    /\ ~ SurveyDone(survey)
    /\ LET c == SurveyColumn(survey.options, survey.next)
       IN  survey' = [survey EXCEPT
                        !.next = @ + 1,
                        !.accepted = IF IsWithinBoundsOf(survey.options, c[1], c[2])
                                     THEN @ \cup {c} ELSE @]
    /\ UNCHANGED << zoneVars, peer, terrain >>

BoundsNext == SurveyProbe

BoundsSpec == BoundsInit /\ [][BoundsNext]_vars

(***************************************************************************)
(* Target selection without spawners, for any footprint and any window: a  *)
(* zone is constructed for a size, a centre and a terraform size, and      *)
(* selectNewTarget() is called on it again and again.                      *)
(***************************************************************************)
TerraformSizes == 1..MaxTerraformSize

\* The columns selectNewTarget() can draw (variant without spawners).
PlainTargetColumns(o, tSize) ==
    LET halfSize == o.size \div 2
        minX == o.centerX - halfSize
        maxX == o.centerX + halfSize - 1
        minZ == o.centerZ - halfSize
        maxZ == o.centerZ + halfSize - 1
        terraformHalf == tSize \div 2
    IN  { << rx + minX + terraformHalf, rz + minZ + terraformHalf >>
          : rx \in RandomBelow(maxX - minX + 1 - tSize),
            rz \in RandomBelow(maxZ - minZ + 1 - tSize) }

\* The columns of the loop of terraformStep around a target at c, before
\* the bounds check.
WindowBox(c, tSize) ==
    LET halfTerraform == tSize \div 2
    IN  ((c[1] - halfTerraform)..(c[1] + halfTerraform - 1))
          \X ((c[2] - halfTerraform)..(c[2] + halfTerraform - 1))

NewSelection(o, tSize) ==
    [options |-> o, terraformSize |-> tSize, target |-> NoSite]

SelectionInit ==
    /\ \E sz \in SurveySizes : \E c \in SurveyCenters : \E ts \in TerraformSizes :
          survey = NewSelection(Options(c[1], c[2], sz), ts)
    /\ isActive = FALSE
    /\ intervalId = 0
    /\ timers = {}
    /\ currentTarget = 0
    /\ targets = << >>
    /\ completedTargets = << >>
    /\ spawnerPositions = << >>
    /\ hasInitialSpawners = FALSE
    /\ initialSpawnPoints = << >>
    /\ grid = << >>
    /\ now = 0
    /\ external = 0
    /\ lastOp = "new"
    /\ trace = << >>
    /\ peer = NewPeer
    /\ terrain = NewTerrain

\* selectNewTarget() (variant without spawners)
SelectionProbe ==
    /\ \E c \in PlainTargetColumns(survey.options, survey.terraformSize) :
          survey' = [survey EXCEPT !.target = c]
    /\ UNCHANGED << zoneVars, peer, terrain >>

SelectionNext == SelectionProbe

SelectionSpec == SelectionInit /\ [][SelectionNext]_vars

(***************************************************************************)
(* The parabolic height for any target elevation and window: a target is   *)
(* given an elevation and a half width, and the height of every column of  *)
(* its window is computed, one column after the other, as the loop of      *)
(* terraformStep does.                                                     *)
(***************************************************************************)
Elevations == 1..MaxElevation
HalfWidths == 1..MaxRadius

NewFalloff(y, maxRadius) ==
    [y |-> y, maxRadius |-> maxRadius, next |-> 0, heights |-> << >>]

\* The i-th column of the window, relative to the target, i = 0, 1, ...
FalloffColumn(v, i) ==
    << (i \div (2 * v.maxRadius)) - v.maxRadius,
       (i % (2 * v.maxRadius)) - v.maxRadius >>

FalloffDone(v) == v.next = (2 * v.maxRadius) * (2 * v.maxRadius)

FalloffInit ==
    /\ \E y \in Elevations : \E r \in HalfWidths : survey = NewFalloff(y, r)
    /\ isActive = FALSE
    /\ intervalId = 0
    /\ timers = {}
    /\ currentTarget = 0
    /\ targets = << >>
    /\ completedTargets = << >>
    /\ spawnerPositions = << >>
    /\ hasInitialSpawners = FALSE
    /\ initialSpawnPoints = << >>
    /\ grid = << >>
    /\ now = 0
    /\ external = 0
    /\ lastOp = "new"
    /\ trace = << >>
    /\ peer = NewPeer
    /\ terrain = NewTerrain

\* targetHeightForPosition of the next column of the window
FalloffProbe ==
    /\ ~ FalloffDone(survey)
    /\ LET c == FalloffColumn(survey, survey.next)
           h == TargetHeightForPosition(survey.y, survey.maxRadius,
                                        DistSq(c[1], c[2], 0, 0))
       IN  survey' = [survey EXCEPT
                        !.next = @ + 1,
                        !.heights = [d \in (DOMAIN @) \cup {c} |->
                                       IF d = c THEN h ELSE @[d]]]
    /\ UNCHANGED << zoneVars, peer, terrain >>

FalloffNext == FalloffProbe

FalloffSpec == FalloffInit /\ [][FalloffNext]_vars

(***************************************************************************)
(* Properties.                                                             *)
(***************************************************************************)
Events(kind) == { e \in Range(trace) : e.ev = kind }
EventsNext(kind) == { e \in Range(trace') : e.ev = kind }

\* The bound marker of the current target is gone from the grid and the
\* step that follows will find it so.
MarkerLost ==
    /\ currentTarget # 0
    /\ targets[currentTarget].isActive
    /\ targets[currentTarget].spawnerPosition # Undefined
    /\ ~ IsSpawnerBlockPresent(grid, targets[currentTarget].spawnerPosition)

\* C1: the zone is either inactive with no periodic driver attached, or
\* active with exactly one periodic driver attached, which is the one it
\* holds the handle of.
C1_DriverMatchesActive ==
    /\ isActive => (intervalId # 0 /\ timers = {intervalId})
    /\ ~ isActive => (intervalId = 0 /\ timers = {})

\* start() was called again on a zone that had been stopped and restarted.
C1_Witness ==
    /\ isActive
    /\ external >= 1
    /\ lastOp = "start"
    /\ trace = << >>
    /\ Cardinality(timers) = 1

\* C2: a start() that follows a stop() resumes the target that was in
\* flight: same coordinates, same creation time, no new marker on the grid
\* or in the registry.
C2_StartResumesTarget ==
    [][ (~ isActive /\ isActive' /\ currentTarget # 0) =>
          /\ currentTarget' # 0
          /\ targets'[currentTarget'].x = targets[currentTarget].x
          /\ targets'[currentTarget'].z = targets[currentTarget].z
          /\ targets'[currentTarget'].startTime = targets[currentTarget].startTime
          /\ grid' = grid
          /\ spawnerPositions' = spawnerPositions ]_vars

\* C3: start() on an active zone and stop() on a stopped zone change
\* neither the current target, the registry, the history, the
\* initial-spawners flag, the grid, nor the driver.
C3_RedundantCallNoOp ==
    [][ ((isActive /\ lastOp' = "start") \/ (~ isActive /\ lastOp' = "stop")) =>
          UNCHANGED << currentTarget, targets, spawnerPositions, completedTargets,
                       hasInitialSpawners, grid, intervalId, timers, isActive >> ]_vars

\* A redundant start() has just returned on a zone that has a target and markers.
C3_Witness ==
    /\ lastOp = "start"
    /\ trace = << >>
    /\ isActive
    /\ currentTarget # 0
    /\ spawnerPositions # << >>

\* C4: while the zone is stopped no step runs, and the grid changes only by
\* the next start(), by a block the player breaks or by an explicit
\* clearAllSpawners() call.  (A step is never cut short: a handler runs to
\* completion before the next one begins.)
C4_NoStepWhileStopped ==
    [][ ~ isActive =>
          /\ lastOp' # "tick"
          /\ (lastOp' \notin {"start", "break", "clear"} => grid' = grid) ]_vars

\* Time has passed on a stopped zone that has a target in flight.
C4_Witness ==
    /\ ~ isActive
    /\ lastOp = "delay"
    /\ currentTarget # 0
    /\ targets[currentTarget].isActive
    /\ currentTarget \notin Range(completedTargets)

Height(g, c) == GetCurrentHeight(g, c[1], c[2])

\* The columns in which the step changes a cell; the height of every other
\* column is what it was.
ChangedColumns ==
    { << p.x, p.z >> :
        p \in { q \in (DOMAIN grid) \cup (DOMAIN grid') :
                  GetBlockId(grid, q) # GetBlockId(grid', q) } }

MarkerColumnsNext == { << e.pos.x, e.pos.z >> : e \in EventsNext("marker") }

\* C5 as stated: in any single step every column ends at most one level
\* above where it began, and at most at the target height computed for it
\* in the window of the step's target.
C5_RiseCapEveryColumn ==
    [][ lastOp' = "tick" =>
          \A c \in ChangedColumns :
            /\ Height(grid', c) <= Height(grid, c) + 1
            /\ (currentTarget # 0 /\ c \in Window(targets[currentTarget]))
                 => Height(grid', c) <= ColumnHeight(targets[currentTarget], c) ]_vars

\* C5, amended: in any single step every column in which the step places no
\* marker ends at most one level above where it began, and a column that
\* rose lies in the window of the step's target and ends at most at the
\* target height computed for it.
C5_RiseCap ==
    [][ lastOp' = "tick" =>
          \A c \in ChangedColumns \ MarkerColumnsNext :
            /\ Height(grid', c) <= Height(grid, c) + 1
            /\ Height(grid', c) > Height(grid, c) =>
                 /\ currentTarget # 0
                 /\ c \in Window(targets[currentTarget])
                 /\ Height(grid', c) <= ColumnHeight(targets[currentTarget], c) ]_vars

\* A step has raised columns of different target heights with fill blocks.
C5_Witness ==
    /\ lastOp = "tick"
    /\ \E e \in Events("fills") : \E p, q \in e.live : p.y = 1 /\ q.y = targetHeight

\* C6: a target that is in the history is not stepped as the current target
\* again, is not appended a second time, and none of its fields change.
C6_CompletedNeverRevisited ==
    [][ \A i \in 1..Len(completedTargets) :
          LET id == completedTargets[i]
          IN  /\ (lastOp' = "tick" => currentTarget # id)
              /\ Cardinality({ j \in 1..Len(completedTargets') : completedTargets'[j] = id })
                   = Cardinality({ j \in 1..Len(completedTargets) : completedTargets[j] = id })
              /\ targets'[id] = targets[id] ]_vars

\* C7: the history only grows at its end: its length never decreases and
\* the entries it has keep their position.
C7_HistoryAppendOnly ==
    [][ /\ Len(completedTargets') >= Len(completedTargets)
        /\ \A i \in 1..Len(completedTargets) :
             completedTargets'[i] = completedTargets[i] ]_vars

\* The history holds two entries.
C7_Witness == Len(completedTargets) >= 2

C9_DestroyedMarkerKeyAbsent ==
    [][ (lastOp' = "tick" /\ MarkerLost /\ currentTarget \notin Range(completedTargets)) =>
          /\ \A e \in EventsNext("fills") : e.live = {}
          /\ ~ targets'[currentTarget].isActive
          /\ PosKey(targets[currentTarget].spawnerPosition) \notin Range(spawnerPositions')
          /\ EventsNext("select") \cup EventsNext("fail") # {} ]_vars

\* C9, amended: the step writes no fill block, marks the target inactive and
\* attempts a selection; at its end the marker's key is absent from the
\* registry, unless the step's selection placed the new current target's
\* marker at that same coordinate.
C9_DestroyedMarkerHandled ==
    [][ (lastOp' = "tick" /\ MarkerLost /\ currentTarget \notin Range(completedTargets)) =>
          LET sp == targets[currentTarget].spawnerPosition
          IN  /\ \A e \in EventsNext("fills") : e.live = {}
              /\ ~ targets'[currentTarget].isActive
              /\ EventsNext("select") \cup EventsNext("fail") # {}
              /\ \/ PosKey(sp) \notin Range(spawnerPositions')
                 \/ /\ currentTarget' # currentTarget
                    /\ targets'[currentTarget'].spawnerPosition = sp
                    /\ IsSpawnerBlockPresent(grid', sp) ]_vars

\* A step has handled the destruction of the current target's marker.
C9_Witness ==
    /\ lastOp = "tick"
    /\ Events("destroyed") # {}
    /\ Events("select") # {}

\* C10: breaking a marker changes that grid cell only, and the step that
\* finds the current target's marker gone changes no other target, removes
\* no other key from the registry and no other marker block from the grid.
C10_DestructionIsolation ==
    [][ /\ lastOp' = "break" =>
             /\ targets' = targets
             /\ currentTarget' = currentTarget
             /\ spawnerPositions' = spawnerPositions
             /\ completedTargets' = completedTargets
             /\ \E p \in DOMAIN grid :
                  \A q \in (DOMAIN grid) \ {p} : GetBlockId(grid', q) = grid[q]
        /\ (lastOp' = "tick" /\ MarkerLost) =>
             LET sp == targets[currentTarget].spawnerPosition
             IN  /\ \A id \in 1..Len(targets) :
                       id # currentTarget => targets'[id] = targets[id]
                 /\ \A k \in Range(spawnerPositions) :
                       k # PosKey(sp) => k \in Range(spawnerPositions')
                 /\ \A q \in DOMAIN grid :
                       (q # sp /\ grid[q] = spawnerBlockId)
                         => GetBlockId(grid', q) = spawnerBlockId ]_vars

\* The step found the marker of the current target gone while another
\* target exists and another marker is live.
C10_Witness ==
    /\ lastOp = "tick"
    /\ Events("destroyed") # {}
    /\ Len(targets) >= 3
    /\ Len(GetActiveSpawnerPositions(grid, spawnerPositions)) >= 2

(***************************************************************************)
(* Initial placement.                                                      *)
(***************************************************************************)
\* The handler that runs is the one that places the initial markers.
InitialPlacement == ~ hasInitialSpawners /\ hasInitialSpawners'

InBoundsPoints ==
    { i \in 1..Len(initialSpawnPoints) :
        IsWithinBounds(initialSpawnPoints[i][1], initialSpawnPoints[i][2]) }

\* The marker cell of the i-th configured point, on the grid as it is before
\* the placement (the configured points are distinct columns).
InitialMarker(i) ==
    LET x == initialSpawnPoints[i][1]
        z == initialSpawnPoints[i][2]
    IN  Pos(x, Max(Height(grid, << x, z >>) + 2, 2), z)

\* C11: after initial placement, whenever some configured point is in
\* bounds, the current target is bound to the marker of the first in-bounds
\* point in list order, at the configured target elevation.
C11_FirstInBoundsPointBound ==
    [][ (InitialPlacement /\ InBoundsPoints # {}) =>
          LET i == CHOOSE j \in InBoundsPoints : \A k \in InBoundsPoints : j <= k
          IN  /\ currentTarget' # 0
              /\ targets'[currentTarget'].x = initialSpawnPoints[i][1]
              /\ targets'[currentTarget'].z = initialSpawnPoints[i][2]
              /\ targets'[currentTarget'].y = targetHeight
              /\ targets'[currentTarget'].spawnerPosition = InitialMarker(i) ]_vars

\* C12: initial placement handles each configured point on its own: an
\* out-of-bounds point changes no cell of its column and registers no key
\* of its column, and the points after it are still processed; an in-bounds
\* point (x, z) gets a marker block at (x, max(groundHeight + 2, 2), z) and
\* the key of that coordinate is registered; nothing else is written or
\* registered.
C12_InitialPlacementPerPoint ==
    [][ InitialPlacement =>
          LET placed == { InitialMarker(i) : i \in InBoundsPoints }
          IN  /\ \A i \in (1..Len(initialSpawnPoints)) \ InBoundsPoints :
                    LET x == initialSpawnPoints[i][1]
                        z == initialSpawnPoints[i][2]
                    IN  /\ << x, z >> \notin ChangedColumns
                        /\ \A k \in Range(spawnerPositions') : ~ (k[1] = x /\ k[3] = z)
              /\ \A p \in placed :
                    /\ GetBlockId(grid', p) = spawnerBlockId
                    /\ PosKey(p) \in Range(spawnerPositions')
              /\ Range(spawnerPositions') = Range(spawnerPositions) \cup { PosKey(p) : p \in placed }
              /\ \A q \in (DOMAIN grid) \cup (DOMAIN grid') :
                    q \notin placed => GetBlockId(grid', q) = GetBlockId(grid, q) ]_vars

\* Initial placement has skipped an out-of-bounds point and placed the
\* marker of the point that follows it.
C12_Witness ==
    /\ lastOp = "start"
    /\ Len(trace) = 2
    /\ trace[1].ev = "skip"
    /\ trace[2].ev = "marker"
    /\ spawnerPositions = << PosKey(trace[2].pos) >>
    /\ IsSpawnerBlockPresent(grid, trace[2].pos)

\* The zone is configured with a single initial point, which is in bounds.
OneInitialPoint == Len(initialSpawnPoints) = 1 /\ InBoundsPoints = {1}

\* The handler that ran last is the one that placed the initial markers.
InitialPlacementDone ==
    /\ lastOp = "start"
    /\ Events("marker") # {}
    /\ Events("select") = {}

\* C13: with one in-bounds initial point, the first step (the selection that
\* start() runs) places exactly one marker, binds it as the target and
\* writes no fill block; the step that follows it (the first tick) keeps
\* the target and writes the first fill blocks, in the target's window.
C13_FirstStepPlacesSecondGrows ==
    [][ /\ (OneInitialPoint /\ InitialPlacement) =>
             /\ lastOp' = "start"
             /\ Len(trace') = 1
             /\ trace'[1].ev = "marker"
             /\ currentTarget' # 0
             /\ targets'[currentTarget'].spawnerPosition = trace'[1].pos
             /\ ChangedColumns = { << trace'[1].pos.x, trace'[1].pos.z >> }
             /\ \A q \in DOMAIN grid' : grid'[q] = blockTypeId => q = trace'[1].pos
        /\ (OneInitialPoint /\ InitialPlacementDone /\ lastOp' = "tick") =>
             /\ \A q \in DOMAIN grid : grid[q] # blockTypeId
             /\ currentTarget' = currentTarget
             /\ \E e \in EventsNext("fills") :
                   /\ e.live # {}
                   /\ \A p \in e.live :
                         /\ << p.x, p.z >> \in Window(targets[currentTarget])
                         /\ GetBlockId(grid', p) = blockTypeId ]_vars

\* The tick that follows the initial placement of a single point has
\* written fill blocks.
C13_Witness ==
    /\ OneInitialPoint
    /\ lastOp = "tick"
    /\ now = 1
    /\ Len(targets) = 1
    /\ \E e \in Events("fills") : e.live # {}

(***************************************************************************)
(* Manual cleanup.                                                         *)
(***************************************************************************)
\* The cells of the grid that hold a marker block.  The loaded map has
\* none, so every one of them was placed by the zone.
MarkerBlocks(g) == { q \in DOMAIN g : g[q] = spawnerBlockId }

\* C14: clearAllSpawners(), called in any reachable state, leaves the
\* registry empty and no marker block on the grid, and changes neither the
\* active flag, the driver nor the history.
C14_ClearLeavesNoMarker ==
    [][ lastOp' = "clear" =>
          /\ spawnerPositions' = << >>
          /\ MarkerBlocks(grid') = {}
          /\ UNCHANGED << isActive, intervalId, timers, completedTargets >> ]_vars

(***************************************************************************)
(* Failed selection.                                                       *)
(***************************************************************************)
\* Every spreading selection of the handler that ran last (runs next) found
\* no valid site.
SelectionFailed == Events("fail") # {} /\ Events("select") = {}
SelectionFailsNext == EventsNext("fail") # {} /\ EventsNext("select") = {}

\* C15: a handler whose spreading selection finds no valid site creates
\* nothing: no marker block is written, no key is added to the registry, no
\* target is created and the current target is the one it was; a step in
\* which this happens leaves the zone running, and the tick that follows
\* it attempts a selection again.
C15_FailedSelectionCreatesNothing ==
    [][ /\ SelectionFailsNext =>
             /\ EventsNext("marker") = {}
             /\ MarkerBlocks(grid') \subseteq MarkerBlocks(grid)
             /\ Range(spawnerPositions') \subseteq Range(spawnerPositions)
             /\ Len(targets') = Len(targets)
             /\ currentTarget' = currentTarget
        /\ (SelectionFailsNext /\ lastOp' = "tick") =>
             UNCHANGED << isActive, intervalId, timers >>
        /\ (SelectionFailed /\ lastOp = "tick" /\ lastOp' = "tick") =>
             EventsNext("select") \cup EventsNext("fail") # {} ]_vars

\* A tick has failed to select after the tick before it had failed too:
\* the completed target was found complete a second time.
C15_Witness ==
    /\ lastOp = "tick"
    /\ SelectionFailed
    /\ Len(completedTargets) >= 2

(***************************************************************************)
(* Spreading from surviving markers.                                       *)
(***************************************************************************)
\* The registered markers whose block is on the grid.
LiveMarkers(g, reg) ==
    { p \in Range(GetSpawnerPositions(reg)) : GetBlockId(g, p) = spawnerBlockId }

\* The step that runs next goes to target selection, not to growth.
SelectionDue ==
    \/ currentTarget = 0
    \/ ~ targets[currentTarget].isActive
    \/ MarkerLost

\* C16: a site accepted by spreading selection was sampled around a marker
\* that is live at the selection (live before the handler, or placed by
\* it); and while no registered marker is live, a handler selects no site
\* and places no marker, a tick that goes to selection fails and leaves the
\* grid as it is, and afterwards still no registered marker is live.
C16_SpreadFromLiveMarkersOnly ==
    [][ /\ \A e \in EventsNext("select") :
               \E m \in e.live :
                 /\ m \in LiveMarkers(grid, spawnerPositions)
                           \cup { k.pos : k \in EventsNext("marker") }
                 /\ Sampled(m, e.pos.x, e.pos.z)
        /\ (hasInitialSpawners /\ LiveMarkers(grid, spawnerPositions) = {}) =>
             /\ EventsNext("select") = {}
             /\ EventsNext("marker") = {}
             /\ LiveMarkers(grid', spawnerPositions') = {}
             /\ (lastOp' = "tick" /\ SelectionDue) =>
                   /\ EventsNext("fail") # {}
                   /\ grid' = grid ]_vars

\* After a spreading selection had succeeded, a tick has failed to select
\* because no registered marker was live.
C16_Witness ==
    /\ lastOp = "tick"
    /\ Len(targets) >= 2
    /\ \E e \in Events("fail") : e.live = {}

(***************************************************************************)
(* The growth wave.                                                        *)
(***************************************************************************)
\* The columns of the window of target t that the wave has reached after
\* stepsElapsed intervals.
WithinWave(t, stepsElapsed) ==
    { c \in Window(t) : ~ BeyondWave(DistSq(c[1], c[2], t.x, t.z), stepsElapsed) }

\* C20: while the target stays the same, from one handler to the next the
\* elapsed steps and the wave radius do not decrease, every column the wave
\* had reached is still within it, and the fill blocks a tick writes are
\* in columns the wave has reached.
C20_WaveMonotone ==
    [][ (currentTarget # 0 /\ currentTarget' = currentTarget) =>
          LET t == targets[currentTarget]
              before == now - t.startTime
              after == now' - t.startTime
          IN  /\ targets'[currentTarget].startTime = t.startTime
              /\ after * elevationSpeed >= before * elevationSpeed
              /\ WithinWave(t, before) \subseteq WithinWave(t, after)
              /\ \A e \in EventsNext("fills") : \A p \in e.live :
                    << p.x, p.z >> \in WithinWave(t, after) ]_vars

\* A tick has grown a target whose wave has, since its first step, reached
\* columns it had not reached then.
C20_Witness ==
    /\ lastOp = "tick"
    /\ currentTarget # 0
    /\ LET t == targets[currentTarget]
       IN  /\ now - t.startTime >= 2
           /\ WithinWave(t, 1) # WithinWave(t, now - t.startTime)
           /\ \E e \in Events("fills") : \E p \in e.live :
                 << p.x, p.z >> \notin WithinWave(t, 1)

(***************************************************************************)
(* The footprint.                                                          *)
(***************************************************************************)
\* C19: for every positive footprint size and every centre, the columns
\* the bounds check accepts are exactly size x size many.
C19_SizeSquaredColumns ==
    SurveyDone(survey) =>
      Cardinality(survey.accepted) = survey.options.size * survey.options.size

(***************************************************************************)
(* Completion without spawners.                                            *)
(***************************************************************************)
\* The first step of a target at which the wave has reached distance d2.
StepsToReach(d2) ==
    CHOOSE n \in 1..(terraformSize + 1) :
      /\ ~ BeyondWave(d2, n)
      /\ \A m \in 1..(n - 1) : BeyondWave(d2, m)

\* The step at which a target on untouched ground is found complete: every
\* column has been reached by the wave and has then risen one level per
\* step to its height.
CompletionSteps ==
    LET half == terraformSize \div 2
        need == { StepsToReach(dx * dx + dz * dz)
                    + TargetHeightForPosition(targetHeight, half, dx * dx + dz * dz)
                  : dx \in (-half)..(half - 1), dz \in (-half)..(half - 1) }
    IN  CHOOSE n \in need : \A m \in need : m <= n

\* C18: without spawners and without block removal, a running zone's target
\* is found complete at the latest CompletionSteps steps after it was
\* selected; when a tick finds it complete, every column of its window
\* that has a parabolic height of 1 or more is at that height or above,
\* and a new target, selected at that tick with its whole window in
\* bounds, takes its place.
C18_PlainTargetCompletes ==
    [][ /\ (isActive' /\ currentTarget' # 0) =>
             now' - targets'[currentTarget'].startTime < CompletionSteps
        /\ (lastOp' = "tick" /\ currentTarget # 0 /\ currentTarget' # currentTarget) =>
             /\ \A c \in Window(targets[currentTarget]) :
                   ColumnHeight(targets[currentTarget], c) >= 1 =>
                     Height(grid', c) >= ColumnHeight(targets[currentTarget], c)
             /\ targets'[currentTarget'].startTime = now'
             /\ Cardinality(Window(targets'[currentTarget'])) = terraformSize * terraformSize
             /\ \A id \in 1..Len(targets) : targets'[id] = targets[id] ]_vars

\* Two targets have been completed, one after the other, and a third one
\* has taken their place.
C18_Witness ==
    /\ lastOp = "tick"
    /\ initialSpawnPoints = << >>
    /\ Len(targets) >= 3
    /\ currentTarget = Len(targets)
    /\ now - targets[2].startTime >= 3
    /\ targets[3].startTime - targets[2].startTime >= 3
    /\ Events("complete") # {}

(***************************************************************************)
(* Progress of selection.                                                  *)
(***************************************************************************)
\* Some column satisfies the spreading constraints.
SiteExists ==
    \E c \in Columns : IsValidSpawnerPosition(grid, spawnerPositions, c[1], c[2])

\* The zone has no target that grows: none at all, an inactive one, or one
\* that is in the history and that the next step finds complete again.
NoGrowingTarget ==
    \/ currentTarget = 0
    \/ ~ targets[currentTarget].isActive
    \/ /\ currentTarget \in Range(completedTargets)
       /\ ~ MarkerLost
       /\ LET tg == targets[currentTarget]
          IN  TargetComplete(tg, now + 1 - tg.startTime,
                             Raised(grid, tg, now + 1 - tg.startTime))

NeedsTarget ==
    /\ isActive
    /\ hasInitialSpawners
    /\ NoGrowingTarget
    /\ SiteExists

\* The last handler was a tick that bound a new target.
TargetBound ==
    /\ lastOp = "tick"
    /\ Events("select") # {}
    /\ currentTarget # 0
    /\ targets[currentTarget].isActive

\* The end of the exploration: the clock or the number of targets is at its
\* bound.
Horizon == now = MaxTime \/ Len(targets) = MaxTargets

\* C17: under fair random sampling, an active zone that has no growing
\* target while a valid site exists does not stay so for ever: a later
\* tick binds a new target, unless the zone is stopped, the site is lost or
\* the target it has must grow again before that.
C17_SelectionProgress ==
    NeedsTarget ~> (TargetBound \/ ~ NeedsTarget \/ Horizon)

\* A zone that was started without a target has ticked without finding a
\* site and then bound its first target.
C17_Witness ==
    /\ TargetBound
    /\ ~ IsWithinBounds(initialSpawnPoints[1][1], initialSpawnPoints[1][2])
    /\ Len(targets) = 1
    /\ now >= 2

(***************************************************************************)
(* The parabolic falloff.                                                  *)
(***************************************************************************)
\* floor(y * max(0, 1 - d2 / maxRadius^2)), in exact arithmetic
ParabolicHeight(y, maxRadius, d2) ==
    IF d2 >= maxRadius * maxRadius THEN 0
    ELSE (y * (maxRadius * maxRadius - d2)) \div (maxRadius * maxRadius)

\* The shape of the falloff: the elevation at d = 0, not increasing with d,
\* below 1 for d >= halfWidth.
FalloffShape ==
    \A c \in DOMAIN survey.heights :
      LET d2 == DistSq(c[1], c[2], 0, 0)
      IN  /\ d2 = 0 => survey.heights[c] = survey.y
          /\ d2 >= survey.maxRadius * survey.maxRadius => survey.heights[c] < 1
          /\ \A e \in DOMAIN survey.heights :
                DistSq(e[1], e[2], 0, 0) >= d2 => survey.heights[e] <= survey.heights[c]

\* C21: the height computed for a column at distance d of the target is
\* floor(elevation * max(0, 1 - (d / halfWidth)^2)); it is the elevation at
\* d = 0, does not increase with d, and is below 1 for d >= halfWidth.
C21_ParabolicFalloff ==
    /\ \A c \in DOMAIN survey.heights :
          survey.heights[c] = ParabolicHeight(survey.y, survey.maxRadius,
                                              DistSq(c[1], c[2], 0, 0))
    /\ FalloffShape

(***************************************************************************)
(* The target drawn without spawners.                                      *)
(***************************************************************************)
\* C22: without spawners, for every positive footprint size and terraform
\* size, a selected target is an in-bounds column and every column of its
\* growth window [x - half, x + half) x [z - half, z + half) is in bounds.
C22_PlainTargetWindowInBounds ==
    survey.target # NoSite =>
      /\ IsWithinBoundsOf(survey.options, survey.target[1], survey.target[2])
      /\ \A c \in WindowBox(survey.target, survey.terraformSize) :
            IsWithinBoundsOf(survey.options, c[1], c[2])

\* The window fits into the footprint the bounds check accepts.
WindowFits == survey.terraformSize <= 2 * (survey.options.size \div 2)

\* The same for the configurations whose window fits into the footprint.
PlainTargetInBoundsWhenFits == WindowFits => C22_PlainTargetWindowInBounds

(***************************************************************************)
(* Targets and their markers.                                              *)
(***************************************************************************)
\* The targets the zone holds: the current one and the history entries.
HeldTargets ==
    (IF currentTarget = 0 THEN {} ELSE {currentTarget}) \cup Range(completedTargets)

\* C23: each target references at most one marker coordinate (it has one
\* spawnerPosition field), and no marker coordinate is referenced by two
\* different targets among the current target and the history entries.
C23_OneTargetPerMarker ==
    \A a, b \in HeldTargets :
      (a # b /\ targets[a].spawnerPosition # Undefined)
        => targets[a].spawnerPosition # targets[b].spawnerPosition

(***************************************************************************)
(* Failing grid calls.                                                     *)
(***************************************************************************)
\* The fill writes of the handler that runs next (ran last) that threw.
FailedFillsNext == UNION { e.live : e \in { k \in EventsNext("failed") : k.pos = Undefined } }
FailedFills == UNION { e.live : e \in { k \in Events("failed") : k.pos = Undefined } }

\* C24: a failing fill write does not abort the step: the step attempts
\* the same writes as without the failure, every other column it raises is
\* written, the column of the failed write keeps its height and is still
\* to be raised, the target is not archived and stays the current one, and
\* the zone keeps running.
C24_FailedWriteStepContinues ==
    [][ (lastOp' = "tick" /\ FailedFillsNext # {}) =>
          LET tg == targets[currentTarget]
              stepsElapsed == now' - tg.startTime
              raised == Raised(grid, tg, stepsElapsed)
          IN  /\ \A e \in EventsNext("fills") :
                    e.live = { FillCell(grid, tg, c) : c \in raised }
              /\ \A c \in raised :
                    IF FillCell(grid, tg, c) \in FailedFillsNext
                    THEN /\ Height(grid', c) = Height(grid, c)
                         /\ c \in Raised(grid', tg, stepsElapsed + 1)
                    ELSE /\ GetBlockId(grid', FillCell(grid, tg, c)) = blockTypeId
                         /\ Height(grid', c) = Height(grid, c) + 1
              /\ EventsNext("complete") = {}
              /\ UNCHANGED << currentTarget, completedTargets, targets,
                              spawnerPositions, isActive, intervalId, timers >> ]_vars

\* A tick has raised several columns while the write of one of them failed.
C24_Witness ==
    /\ lastOp = "tick"
    /\ FailedFills # {}
    /\ \E e \in Events("fills") :
          /\ Cardinality(e.live) >= 3
          /\ \E p \in e.live \ FailedFills : GetBlockId(grid, p) = blockTypeId

\* The cells whose read throws in the handler that runs next (ran last).
ThrowsNext == UNION { e.live : e \in EventsNext("throws") }
ThrowsLast == UNION { e.live : e \in Events("throws") }

\* The grid with the cells emptied.
EmptiedGrid(g, cells) ==
    [q \in (DOMAIN g) \cup cells |-> IF q \in cells THEN AIR ELSE g[q]]

\* A handler whose read of some cell throws goes on as it would with that
\* cell empty: the cell holds no block and no marker for it, the heights it
\* probes and the live markers it finds are those of the emptied grid.
\* The zone keeps running.
FailedReadIsEmptyCell ==
    ThrowsNext # {} =>
      LET g == EmptiedGrid(grid, ThrowsNext)
          found == FaultyGrid(grid, ThrowsNext)
      IN  /\ \A p \in ThrowsNext :
                /\ ~ HasBlockAt(found, p.x, p.y, p.z)
                /\ ~ IsSpawnerBlockPresent(found, p)
          /\ \A p \in ThrowsNext :
                GetCurrentHeight(found, p.x, p.z) = GetCurrentHeight(g, p.x, p.z)
          /\ GetActiveSpawnerPositions(found, spawnerPositions)
                = GetActiveSpawnerPositions(g, spawnerPositions)
          /\ lastOp' \in {"tick", "start"}
          /\ lastOp' = "tick" => UNCHANGED << isActive, intervalId, timers >>

\* The read of the current target's marker cell throws in the step that
\* runs next, and the marker is on the grid.
MarkerReadFails ==
    /\ lastOp' = "tick"
    /\ currentTarget # 0
    /\ targets[currentTarget].isActive
    /\ targets[currentTarget].spawnerPosition \in ThrowsNext
    /\ GetBlockId(grid, targets[currentTarget].spawnerPosition) = spawnerBlockId

\* C25 as stated: a failing read is treated as an empty cell, and the step
\* in which the read of the bound marker's cell fails writes no fill
\* block, deactivates the target and leaves the marker's key absent from
\* the registry.
C25_FailedReadKeyAbsent ==
    [][ /\ FailedReadIsEmptyCell
        /\ MarkerReadFails =>
             /\ \A e \in EventsNext("fills") : e.live = {}
             /\ EventsNext("destroyed") # {}
             /\ ~ targets'[currentTarget].isActive
             /\ PosKey(targets[currentTarget].spawnerPosition)
                   \notin Range(spawnerPositions') ]_vars

\* C25, amended: the same, with the marker's key absent from the registry
\* unless the step's selection placed the new current target's marker at
\* that same coordinate.
C25_FailedReadHandled ==
    [][ /\ FailedReadIsEmptyCell
        /\ MarkerReadFails =>
             LET sp == targets[currentTarget].spawnerPosition
             IN  /\ \A e \in EventsNext("fills") : e.live = {}
                 /\ EventsNext("destroyed") # {}
                 /\ ~ targets'[currentTarget].isActive
                 /\ \/ PosKey(sp) \notin Range(spawnerPositions')
                    \/ /\ currentTarget' # currentTarget
                       /\ targets'[currentTarget'].spawnerPosition = sp ]_vars

\* A step has handled a failing read of its target's marker, which is still
\* on the grid, as a destroyed marker.
C25_Witness ==
    /\ lastOp = "tick"
    /\ Events("destroyed") # {}
    /\ \E p \in ThrowsLast :
          /\ GetBlockId(grid, p) = spawnerBlockId
          /\ \E id \in 1..Len(targets) :
                /\ ~ targets[id].isActive
                /\ targets[id].x = p.x /\ targets[id].z = p.z

(***************************************************************************)
(* Two zones.                                                              *)
(***************************************************************************)
\* The footprint of the second zone.
PeerColumns == { << c[1] + PeerShift, c[2] >> : c \in Columns }

\* C26: a start, stop or step of one zone leaves the other zone's active
\* flag, driver, current target, targets, registry and history unchanged,
\* and the two zones, whose footprints are disjoint, write in their own
\* footprint only, so never in the same column.
C26_ZonesIndependent ==
    [][ /\ lastOp' \in {"start", "stop", "tick"} =>
             /\ peer' = peer
             /\ (peer.intervalId \in timers') = (peer.intervalId \in timers)
             /\ ChangedColumns \subseteq Columns
        /\ lastOp' \in {"peer start", "peer stop", "peer tick"} =>
             /\ UNCHANGED << isActive, intervalId, currentTarget, targets,
                             spawnerPositions, completedTargets, hasInitialSpawners >>
             /\ (intervalId \in timers') = (intervalId \in timers)
             /\ ChangedColumns \subseteq PeerColumns
        /\ Columns \cap PeerColumns = {} ]_vars

\* Both zones are running, each has raised columns of its footprint, and
\* the second zone has just stepped.
C26_Witness ==
    /\ lastOp = "peer tick"
    /\ isActive /\ peer.isActive
    /\ currentTarget # 0 /\ peer.cur # 0
    /\ \E p, q \in DOMAIN grid :
          /\ grid[p] = blockTypeId /\ << p.x, p.z >> \in Columns
          /\ grid[q] = blockTypeId /\ << q.x, q.z >> \in PeerColumns

(***************************************************************************)
(* Completion.                                                             *)
(***************************************************************************)
\* C27: a step appends its target to the history only if every in-bounds
\* column of the target's window is within the wave radius of that step
\* and either has its highest block at or above its computed height or has
\* a computed height below 1; such a step writes no fill block, and the
\* history grows by that target and in no other handler.
C27_CompletionOnlyWhenDone ==
    [][ Len(completedTargets') > Len(completedTargets) =>
          /\ lastOp' = "tick"
          /\ currentTarget # 0
          /\ completedTargets' = Append(completedTargets, currentTarget)
          /\ LET tg == targets[currentTarget]
             IN  \A c \in Window(tg) :
                   /\ DistSq(c[1], c[2], tg.x, tg.z)
                        <= ((now' - tg.startTime) * elevationSpeed)
                             * ((now' - tg.startTime) * elevationSpeed)
                   /\ \/ ColumnHeight(tg, c) < 1
                      \/ Height(grid, c) >= ColumnHeight(tg, c)
          /\ \A e \in EventsNext("fills") : e.live = {}
          /\ \A q \in DOMAIN grid' :
                grid'[q] = blockTypeId => GetBlockId(grid, q) = blockTypeId ]_vars

\* A step has declared complete a target that the player had set back by
\* breaking a block of it, after the block was placed again.
C27_Witness ==
    /\ lastOp = "tick"
    /\ Events("complete") # {}
    /\ external = 1
    /\ Len(completedTargets) = 1
    /\ LET tg == targets[completedTargets[1]]
       IN  /\ now - tg.startTime > 3
           /\ \E c \in Window(tg) : ColumnHeight(tg, c) < 1
           /\ \A c \in Window(tg) :
                 ColumnHeight(tg, c) >= 1 => Height(grid, c) >= ColumnHeight(tg, c)

(***************************************************************************)
(* The wave radius.                                                        *)
(***************************************************************************)
\* The columns of the window of t that are farther from its centre than
\* steps * elevationSpeed.
OutsideWave(t, steps) ==
    { c \in Window(t) :
        DistSq(c[1], c[2], t.x, t.z) > (steps * elevationSpeed) * (steps * elevationSpeed) }

\* C28: a step writes no fill block to a column whose distance from the
\* centre of the target exceeds the elapsed steps times elevationSpeed: the
\* fill blocks of the step and the fill blocks that appear on the grid are
\* all within that radius, the columns beyond it are left as they were,
\* and while there is such a column the step does not declare the target
\* complete and keeps it as the current target.
C28_NoFillBeyondWave ==
    [][ (/\ lastOp' = "tick"
         /\ currentTarget # 0
         /\ EventsNext("fills") # {})
        => LET tg    == targets[currentTarget]
               steps == now' - tg.startTime
               out   == OutsideWave(tg, steps)
           IN  /\ \A e \in EventsNext("fills") :
                     \A q \in e.live : << q.x, q.z >> \notin out
               /\ \A q \in DOMAIN grid' :
                     (grid'[q] = blockTypeId /\ GetBlockId(grid, q) # blockTypeId)
                        => << q.x, q.z >> \notin out
               /\ out # {} =>
                     /\ ChangedColumns \cap out = {}
                     /\ EventsNext("complete") = {}
                     /\ completedTargets' = completedTargets
                     /\ currentTarget' = currentTarget ]_vars

\* A step has written fill blocks while a column that is still below its
\* height was beyond the wave, and the target is still the current one.
C28_Witness ==
    /\ lastOp = "tick"
    /\ currentTarget # 0
    /\ \E e \in Events("fills") : e.live # {}
    /\ LET tg == targets[currentTarget]
       IN  \E c \in OutsideWave(tg, now - tg.startTime) :
             /\ ColumnHeight(tg, c) >= 1
             /\ Height(grid, c) < ColumnHeight(tg, c)

(***************************************************************************)
(* Where a zone writes.                                                    *)
(***************************************************************************)
ZoneHandlers == { "start", "stop", "tick", "clear" }

\* C29: every cell a handler of the zone changes, every marker it places
\* and every fill block it writes is in a column of the zone's footprint,
\* and every fill block is in a column of the terraform window, centred on
\* the target that was current when the step began.
C29_WritesInsideFootprint ==
    [][ lastOp' \in ZoneHandlers =>
          /\ ChangedColumns \subseteq Columns
          /\ MarkerColumnsNext \subseteq Columns
          /\ \A e \in EventsNext("fills") : \A q \in e.live :
                /\ << q.x, q.z >> \in Columns
                /\ currentTarget # 0
                /\ LET tg == targets[currentTarget]
                       halfTerraform == terraformSize \div 2
                   IN  /\ q.x >= tg.x - halfTerraform
                       /\ q.x <= tg.x + halfTerraform - 1
                       /\ q.z >= tg.z - halfTerraform
                       /\ q.z <= tg.z + halfTerraform - 1
          /\ \A q \in DOMAIN grid' :
                (grid'[q] \in {blockTypeId, spawnerBlockId} /\ GetBlockId(grid, q) # grid'[q])
                   => << q.x, q.z >> \in Columns ]_vars

\* A step has written fill blocks for a target at the corner of the
\* footprint, part of whose window is outside the footprint.
C29_Witness ==
    /\ lastOp = "tick"
    /\ currentTarget # 0
    /\ \E e \in Events("fills") : e.live # {}
    /\ LET tg == targets[currentTarget]
       IN  /\ ~ IsWithinBounds(tg.x - 1, tg.z)
           /\ ~ IsWithinBounds(tg.x, tg.z - 1)
           /\ \E q \in DOMAIN grid : grid[q] = spawnerBlockId /\ q.x = tg.x /\ q.z = tg.z

(***************************************************************************)
(* Growth and the marker.                                                  *)
(***************************************************************************)
\* C30: whatever the player removes and whichever grid call fails, a step
\* writes fill blocks only if the target that is current when the step
\* begins is bound to a marker position and the marker block is at that
\* position on the grid.
C30_GrowthGatedByMarker ==
    [][ (/\ lastOp' = "tick"
         /\ \E e \in EventsNext("fills") : e.live # {})
        => /\ currentTarget # 0
           /\ targets[currentTarget].spawnerPosition # Undefined
           /\ GetBlockId(grid, targets[currentTarget].spawnerPosition) = spawnerBlockId ]_vars

(***************************************************************************)
(* One selection per step.                                                 *)
(***************************************************************************)
\* The number of events of the kinds `kinds` in the trace of the handler
\* that ran last.
CountNext(kinds) == Cardinality({ i \in 1..Len(trace') : trace'[i].ev \in kinds })

\* C31: once the initial markers are placed, a step places at most one
\* marker, creates at most one target and attempts at most one selection,
\* and every marker it places is the marker of the target that is current
\* after the step or of a target in the history.
C31_OneSelectionPerStep ==
    [][ (lastOp' = "tick" /\ hasInitialSpawners) =>
          /\ CountNext({"marker"}) <= 1
          /\ Len(targets') <= Len(targets) + 1
          /\ CountNext({"select", "fail"}) <= 1
          /\ \A e \in EventsNext("marker") :
                \E id \in ({currentTarget'} \ {0}) \cup Range(completedTargets') :
                   targets'[id].spawnerPosition = e.pos ]_vars

C33_RegistryTracksMarkers ==
    \A q \in DOMAIN grid :
       grid[q] = spawnerBlockId => PosKey(q) \in Range(spawnerPositions)

(***************************************************************************)
(* The initial markers.                                                    *)
(***************************************************************************)
\* The handler that ran last went through the loop over the configured
\* points: it passed over a point, or it placed a marker that no selection
\* precedes.
InitialPlacementNext ==
    \E i \in 1..Len(trace') :
       \/ trace'[i].ev = "skip"
       \/ /\ trace'[i].ev = "marker"
          /\ (i = 1 \/ trace'[i - 1].ev # "select")

\* C34: the flag of the initial markers never goes back to false, it is
\* set by the handler that places the initial markers, a start or a step,
\* and by no other, and once it is set no handler places the initial
\* markers again.
C34_InitialPlacementOnce ==
    [][ /\ hasInitialSpawners => hasInitialSpawners'
        /\ InitialPlacementNext => (~ hasInitialSpawners /\ hasInitialSpawners')
        /\ (~ hasInitialSpawners /\ hasInitialSpawners') =>
              /\ lastOp' \in {"start", "tick"}
              /\ InitialPlacementNext ]_vars

\* The zone was stopped and started again after clearAllSpawners(): the
\* start found no marker to spread from and placed none.
C34_Witness ==
    /\ lastOp = "start"
    /\ hasInitialSpawners
    /\ external = 1
    /\ Events("fail") # {}
    /\ Events("marker") = {}
    /\ spawnerPositions = << >>
    /\ \A q \in DOMAIN grid : grid[q] # spawnerBlockId

(***************************************************************************)
(* Fill blocks and the liveness of markers.                                *)
(***************************************************************************)
\* The registered keys whose cell holds the marker block type on g.
LiveKeys(g, reg) == { k \in Range(reg) : IsSpawnerBlockPresent(g, ParseKey(k)) }

\* C35: a registered key whose marker is gone from the grid counts as live
\* after a handler only if the handler placed a marker at its coordinate;
\* the zone's fill block is of the block type of the markers.
C35_LiveOnlyByPlacement ==
    [][ \A k \in Range(spawnerPositions) \ LiveKeys(grid, spawnerPositions) :
          k \in LiveKeys(grid', spawnerPositions')
             => \E e \in EventsNext("marker") : PosKey(e.pos) = k ]_vars

(***************************************************************************)
(* The two variants of the class.                                          *)
(***************************************************************************)
\* The fill blocks a step wrote and whether it found its target complete,
\* read from what the step did.
FillsOf(tr) == UNION { tr[i].live : i \in { j \in 1..Len(tr) : tr[j].ev = "fills" } }
VerdictOf(tr) == \E i \in 1..Len(tr) : tr[i].ev = "complete"

C37_BunkerColumnsUntouched ==
    \A q \in DOMAIN grid :
       grid[q] \in {blockTypeId, spawnerBlockId} => ~ InBunker(q.x, q.z)

(***************************************************************************)
(* Block damage.                                                           *)
(***************************************************************************)
\* The step is a call of damageBlock; terrain'.call is that call.
DamageCallNext == lastOp' \in {"hit", "call"}

BunkerGround(p) == InBunker(p.x, p.z) /\ p.y = 0

DamageAt(t, p) ==
    IF PosKey(p) \in DOMAIN t.blockDamages THEN t.blockDamages[PosKey(p)].damage ELSE 0

\* C38: a call of damageBlock for a block of the bunker at ground level
\* changes no cell and no damage record and returns false, and no call of
\* damageBlock removes such a block or leaves a record for it.
C38_BunkerProtected ==
    [][ DamageCallNext =>
          /\ BunkerGround(terrain'.call.block.pos) =>
                /\ grid' = grid
                /\ ~ terrain'.call.returned
                /\ terrain'.blockDamages = terrain.blockDamages
          /\ \A p \in GroundCells :
                BunkerGround(p) =>
                  /\ GetBlockId(grid', p) = GetBlockId(grid, p)
                  /\ PosKey(p) \notin DOMAIN terrain'.blockDamages ]_vars

\* damageBlock was called for a block of the bunker, for the second time at
\* least, and the block is in place, while the same call has broken a
\* block of the ground outside the bunker.
C38_Witness ==
    /\ lastOp = "call"
    /\ BunkerGround(terrain.call.block.pos)
    /\ ~ terrain.call.returned
    /\ terrain.uses >= 3
    /\ GetBlockId(grid, terrain.call.block.pos) = GROUND
    /\ \E p \in GroundCells : ~ BunkerGround(p) /\ GetBlockId(grid, p) = AIR

\* C39: a call of damageBlock for an unprotected block adds the damage of
\* the hit to the damage recorded for the coordinate, which was below the
\* threshold of the block's type.  If the sum reaches the threshold (25 for
\* the marker, 8 for clay, 20 for a type without an entry) the call sets
\* the cell to air, removes the record and returns true; otherwise it
\* returns false, records the sum and leaves the grid as it was.  The
\* records of the other coordinates stay as they were.
C39_DamageAccumulates ==
    [][ (DamageCallNext /\ ~ BunkerGround(terrain'.call.block.pos)) =>
          LET b         == terrain'.call.block
              total     == DamageAt(terrain, b.pos) + pickaxeDamage
              threshold == IF b.id = spawnerBlockId THEN 25
                           ELSE IF b.id = blockTypeId THEN 8
                           ELSE IF b.id \in DOMAIN Thresholds THEN Thresholds[b.id]
                           ELSE 20
          IN  /\ DamageAt(terrain, b.pos) < threshold
              /\ terrain'.call.returned = (total >= threshold)
              /\ terrain'.call.returned =>
                    /\ GetBlockId(grid', b.pos) = AIR
                    /\ PosKey(b.pos) \notin DOMAIN terrain'.blockDamages
                    /\ \A q \in (DOMAIN grid) \ {b.pos} :
                          GetBlockId(grid', q) = grid[q]
              /\ ~ terrain'.call.returned =>
                    /\ grid' = grid
                    /\ DamageAt(terrain', b.pos) = total
              /\ \A k \in (DOMAIN terrain.blockDamages) \ {PosKey(b.pos)} :
                    /\ k \in DOMAIN terrain'.blockDamages
                    /\ terrain'.blockDamages[k] = terrain.blockDamages[k] ]_vars

\* The third hit on a marker has broken it: the earlier two had left 20 on
\* the record, which is gone.
C39_Witness ==
    /\ lastOp = "hit"
    /\ terrain.call.returned
    /\ terrain.call.block.id = spawnerBlockId
    /\ terrain.uses = 3
    /\ GetBlockId(grid, terrain.call.block.pos) = AIR
    /\ terrain.blockDamages = << >>

\* C40: a block that is placed in an empty cell starts without damage:
\* whenever a cell that was air holds a block after a step, no damage is
\* recorded for its coordinate.
C40_FreshBlockUndamaged ==
    [][ \A q \in DOMAIN grid' :
          (grid'[q] # AIR /\ GetBlockId(grid, q) = AIR)
             => PosKey(q) \notin DOMAIN terrain'.blockDamages ]_vars

====
